---------------------------- MODULE Spec2Model ----------------------------
(***************************************************************************)
(* A model of the WhatsApp Business messaging backend:                     *)
(*   - src/whatsapp.ts      WhatsAppService, ChatbotProcessor              *)
(*   - src/routes.ts        the HTTP routes, the real-time channel and     *)
(*                          DatabaseStorage                                *)
(*   - src/unnamed/part_000 the auth module                                *)
(*                                                                         *)
(* Every request is served by a handler.  An `await` of the code is a      *)
(* point where another handler may run, so each action below is one        *)
(* storage / gateway call together with the synchronous code that follows  *)
(* it up to the next await.                                                *)
(***************************************************************************)
EXTENDS Integers, Sequences, FiniteSets, TLC

(***************************************************************************)
(* Text.  Message texts are TLA+ strings; String.prototype.includes and    *)
(* String.prototype.toLowerCase are computed character by character.       *)
(***************************************************************************)

\* undefined / null where a string is expected.
NULL == "<null>"

\* undefined where a row is expected (`return row || undefined`); row ids
\* are 1, 2, ...
NoRow == 0

UpperChars == "ABCDEFGHIJKLMNOPQRSTUVWXYZÁÉÍÓÚÑ"
LowerChars == "abcdefghijklmnopqrstuvwxyzáéíóúñ"

CharAt(s, i) == SubSeq(s, i, i)

\* One character of String.prototype.toLowerCase.
LowerChar(c) ==
  IF \E i \in 1..Len(UpperChars) : CharAt(UpperChars, i) = c
    THEN CharAt(LowerChars, CHOOSE i \in 1..Len(UpperChars) : CharAt(UpperChars, i) = c)
    ELSE c

RECURSIVE ToLowerCase(_)
ToLowerCase(s) ==
  IF Len(s) = 0 THEN ""
  ELSE LowerChar(CharAt(s, 1)) \o ToLowerCase(SubSeq(s, 2, Len(s)))

\* One character of String.prototype.toUpperCase.
UpperChar(c) ==
  IF \E i \in 1..Len(LowerChars) : CharAt(LowerChars, i) = c
    THEN CharAt(UpperChars, CHOOSE i \in 1..Len(LowerChars) : CharAt(LowerChars, i) = c)
    ELSE c

RECURSIVE ToUpperCase(_)
ToUpperCase(s) ==
  IF Len(s) = 0 THEN ""
  ELSE UpperChar(CharAt(s, 1)) \o ToUpperCase(SubSeq(s, 2, Len(s)))

\* String.prototype.includes: k occurs in s as a contiguous substring.
Includes(s, k) ==
  \E i \in 1..(Len(s) - Len(k) + 1) : SubSeq(s, i, i + Len(k) - 1) = k

\* Array.prototype.some(word => content.includes(word)) over a keyword list.
SomeIncluded(words, content) ==
  \E j \in 1..Len(words) : Includes(content, words[j])

(***************************************************************************)
(* ChatbotProcessor.generateResponse and shouldEscalateToHuman             *)
(***************************************************************************)

\* The `templates` table: template name -> keyword lists.
Templates ==
  [ corporate |->
      [ greetings |-> <<"hola", "buenos días", "buenas tardes", "buenas noches">>,
        pricing   |-> <<"precio", "costo", "tarifa", "cuánto cuesta">>,
        info      |-> <<"información", "info", "detalles", "más info">>,
        support   |-> <<"ayuda", "soporte", "problema", "asistencia">> ],
    ecommerce |->
      [ products  |-> <<"productos", "catálogo", "qué venden", "disponible">>,
        orders    |-> <<"pedido", "orden", "comprar", "ordenar">>,
        shipping  |-> <<"envío", "entrega", "delivery", "tiempo">>,
        returns   |-> <<"devolución", "cambio", "garantía", "reembolso">> ],
    healthcare |->
      [ appointments |-> <<"cita", "turno", "consulta", "agenda">>,
        services     |-> <<"servicios", "tratamientos", "especialidades">>,
        hours        |-> <<"horario", "horarios", "cuándo", "abierto">>,
        emergency    |-> <<"emergencia", "urgente", "urgencia">> ] ]

\* template.<list>?.some(...): a list the template does not have is undefined,
\* and the optional chain is then falsy.
Some(template, list, content) ==
  /\ list \in DOMAIN template
  /\ SomeIncluded(template[list], content)

NoTemplateResponse ==
  "Gracias por tu mensaje. Un representante se pondrá en contacto contigo pronto."

GreetingResponse(name) ==
  "¡Hola! Soy el asistente virtual de " \o name \o ". ¿En qué puedo ayudarte hoy?"

\* (The pictographs that decorate some of the canned texts are left out: they
\* take no part in any comparison.)
PricingResponse ==
  "Tenemos varios planes disponibles:\n\nPlan Básico: $299/mes\nPlan Professional: $599/mes\nPlan Enterprise: $999/mes\n\n¿Te gustaría más información sobre algún plan específico?"

InfoResponse ==
  "Somos una empresa líder en soluciones empresariales. Ofrecemos servicios de consultoría, implementación y soporte técnico. ¿Sobre qué aspecto te gustaría saber más?"

ProductsResponse ==
  "Contamos con un amplio catálogo de productos. Puedes ver todos nuestros productos en nuestro sitio web o pregúntame por una categoría específica. ¿Qué tipo de producto buscas?"

OrdersResponse ==
  "Para realizar un pedido puedes:\n1. Visitar nuestro sitio web\n2. Llamar al 123-456-7890\n3. Enviarme los detalles por aquí\n\n¿Cómo prefieres proceder?"

AppointmentsResponse ==
  "Para agendar una cita puedes:\nLlamar al 123-456-7890\nUsar nuestro portal en línea\nEnviarme tus datos aquí\n\nNuestros horarios: Lun-Vie 8:00-18:00, Sáb 8:00-14:00"

EmergencyResponse ==
  "EMERGENCIA: Si tienes una emergencia médica, llama inmediatamente al 911 o dirígete al hospital más cercano.\n\nPara urgencias médicas no críticas: 123-456-7890"

DefaultResponse ==
  "Gracias por tu mensaje. ¿Podrías ser más específico sobre lo que necesitas? Estoy aquí para ayudarte."

\* The switch (chatbot.template) { ... } of generateResponse; NULL when the
\* switch falls through to the default response.
TemplateSpecificResponse(chatbot, template, content) ==
  CASE chatbot.template = "corporate" ->
         IF Some(template, "pricing", content) THEN PricingResponse
         ELSE IF Some(template, "info", content) THEN InfoResponse
         ELSE NULL
    [] chatbot.template = "ecommerce" ->
         IF Some(template, "products", content) THEN ProductsResponse
         ELSE IF Some(template, "orders", content) THEN OrdersResponse
         ELSE NULL
    [] chatbot.template = "healthcare" ->
         IF Some(template, "appointments", content) THEN AppointmentsResponse
         ELSE IF Some(template, "emergency", content) THEN EmergencyResponse
         ELSE NULL
    [] OTHER -> NULL

\* (mutant: the template's own keyword lists are checked before the greeting)
generateResponse_GreetingLast(chatbot, messageContent) ==
  LET content == ToLowerCase(messageContent) IN
  IF chatbot.template \notin DOMAIN Templates THEN NoTemplateResponse
  ELSE LET template == Templates[chatbot.template]
           r == TemplateSpecificResponse(chatbot, template, content)
       IN  IF r # NULL THEN r
           ELSE IF Some(template, "greetings", content)
                  THEN GreetingResponse(chatbot.name)
                  ELSE DefaultResponse

\* generateResponse(chatbot, messageContent)
generateResponse(chatbot, messageContent) ==
  LET content == ToLowerCase(messageContent) IN
  IF chatbot.template \notin DOMAIN Templates THEN NoTemplateResponse
  ELSE LET template == Templates[chatbot.template] IN
       IF Some(template, "greetings", content) THEN GreetingResponse(chatbot.name)
       ELSE LET r == TemplateSpecificResponse(chatbot, template, content) IN
            IF r # NULL THEN r ELSE DefaultResponse

escalationKeywords ==
  <<"hablar con persona", "agente humano", "representante", "supervisor",
    "queja", "reclamo", "problema serio", "no entiendo", "mal servicio">>

\* (mutant: the keywords are looked for in the text as written)
shouldEscalateToHuman_CaseSensitive(messageContent) ==
  SomeIncluded(escalationKeywords, messageContent)

\* shouldEscalateToHuman(messageContent, chatbot)
shouldEscalateToHuman(messageContent) ==
  SomeIncluded(escalationKeywords, ToLowerCase(messageContent))

EscalationNotice == "\n\nUn agente humano se pondrá en contacto contigo pronto."


(***************************************************************************)
(* State                                                                   *)
(***************************************************************************)

VARIABLES
  users,             \* table users
  whatsappAccounts,  \* table whatsapp_accounts: sequence of rows, id = index
  chatbots,          \* table chatbots
  contacts,          \* table contacts
  conversations,     \* table conversations
  messages,          \* table messages
  botInteractions,   \* table bot_interactions
  webhookEvents,     \* table webhook_events
  credentials,       \* WhatsAppService.validateCredentials()
  gateway,           \* the POSTs the provider has received, with their outcome
  clock,             \* the readings of new Date() so far
  wsConnections,     \* the registry, a Map: entries [userId, ws] as inserted
  readyState,        \* connection -> "OPEN" | "CLOSING" | "CLOSED"
  outbox,            \* connection -> the frames the server has sent on it
  hs,                \* the request handlers: position (pc) and locals
  nreq,              \* requests started so far
  ingested           \* the calls of processIncomingMessage so far

\* What the messaging pipeline only reads, or never touches.
configVars == <<users, whatsappAccounts, chatbots, credentials, webhookEvents>>
wsVars == <<wsConnections, readyState, outbox>>

vars == <<users, whatsappAccounts, chatbots, contacts, conversations, messages,
          botInteractions, webhookEvents, credentials, gateway, clock, wsConnections,
          readyState, outbox, hs, nreq, ingested>>

\* Bounds of the model: the requests served in a run of Spec and of SpecSeq.
MaxRequests == 3
MaxSeqRequests == 2

Handlers == {1, 2}

\* The owner the webhook route looks accounts up for.
SystemUser == "system"

(***************************************************************************)
(* DatabaseStorage (src/routes.ts).  A select without ORDER BY returns its *)
(* rows in no specified order, so `const [row] = await db.select()...` is  *)
(* any of the matching rows: the getters below return the set of           *)
(* candidates and the caller takes one of them (NULL when there is none).  *)
(***************************************************************************)

OneOf(S) == IF S = {} THEN {NoRow} ELSE S

getWhatsappAccount(id) == IF id \in DOMAIN whatsappAccounts THEN id ELSE NoRow

getWhatsappAccountsByUser(userId) ==
  {i \in DOMAIN whatsappAccounts : whatsappAccounts[i].userId = userId}

getContact(id) == IF id \in DOMAIN contacts THEN id ELSE NoRow

\* (mutant: the two arguments compared with each other's column)
getContactByPhone_Swapped(phone, userId) ==
  {i \in DOMAIN contacts : contacts[i].phone = userId /\ contacts[i].userId = phone}

getContactByPhone(phone, userId) ==
  {i \in DOMAIN contacts : contacts[i].phone = phone /\ contacts[i].userId = userId}

getConversation(id) == IF id \in DOMAIN conversations THEN id ELSE NoRow

getConversationByContact(contactId) ==
  {i \in DOMAIN conversations : conversations[i].contactId = contactId}

getChatbot(id) == IF id \in DOMAIN chatbots THEN id ELSE NoRow

getChatbotsByUser(userId) == {i \in DOMAIN chatbots : chatbots[i].userId = userId}

\* Array.prototype.find over the rows of a result: the first of the rows
\* that satisfy the predicate.
\* (Used where the rows are never rewritten, so that they come in id order.)
First(rows) ==
  IF rows = {} THEN NoRow ELSE CHOOSE i \in rows : \A j \in rows : i <= j

\* insert ... returning: the new row gets the next id.
Insert(table, row) == Append(table, row)

\* update ... set(updates) where id = ... : only the columns named in
\* `updates` change.
Update(table, id, updates) ==
  IF id \in DOMAIN table
    THEN [table EXCEPT ![id] =
            [f \in DOMAIN table[id] |->
               IF f \in DOMAIN updates THEN updates[f] ELSE table[id][f]]]
    ELSE table

EmptyRecord == [f \in {} |-> NULL]

\* createWebhookEvent, getUnprocessedWebhookEvents, markWebhookEventProcessed:
\* the table after / the rows returned.  No route and no service calls them.
createWebhookEvent(insertEvent) ==
  Insert(webhookEvents, [payload |-> insertEvent, processed |-> FALSE])

getUnprocessedWebhookEvents == {i \in DOMAIN webhookEvents : ~webhookEvents[i].processed}

markWebhookEventProcessed(id) == Update(webhookEvents, id, [processed |-> TRUE])

(***************************************************************************)
(* The real-time registry (src/routes.ts)                                  *)
(***************************************************************************)

\* Map.prototype.has / get / set / delete on wsConnections.  A Map keeps its
\* entries in insertion order, and set on a key it has keeps the key's place.
MapKeys == {k \in DOMAIN wsConnections : TRUE}

MapHas(userId) == \E k \in MapKeys : wsConnections[k].userId = userId

MapGet(userId) ==
  wsConnections[CHOOSE k \in MapKeys : wsConnections[k].userId = userId].ws

MapSet(userId, ws) ==
  IF MapHas(userId)
    THEN [k \in MapKeys |->
            IF wsConnections[k].userId = userId
              THEN [userId |-> userId, ws |-> ws]
              ELSE wsConnections[k]]
    ELSE Append(wsConnections, [userId |-> userId, ws |-> ws])

MapDeleteAt(k) ==
  SubSeq(wsConnections, 1, k - 1) \o SubSeq(wsConnections, k + 1, Len(wsConnections))

\* (mutant: the frame is sent whatever the state of the socket)
broadcastToUser_AnyState(userId, frame) ==
  IF MapHas(userId)
    THEN [outbox EXCEPT ![MapGet(userId)] = Append(@, frame)]
    ELSE outbox

\* broadcastToUser(userId, message): the outboxes after the call.
broadcastToUser(userId, frame) ==
  IF MapHas(userId) /\ readyState[MapGet(userId)] = "OPEN"
    THEN [outbox EXCEPT ![MapGet(userId)] = Append(@, frame)]
    ELSE outbox

\* wss.on("connection"): a client connects.
WsConnect(c) ==
  /\ c \notin DOMAIN readyState
  /\ readyState' = readyState @@ (c :> "OPEN")
  /\ outbox' = outbox @@ (c :> <<>>)
  /\ UNCHANGED <<configVars, contacts, conversations, messages, botInteractions,
                 gateway, clock, wsConnections, hs, nreq, ingested>>

\* The closing handshake of a connection has begun.
WsClosing(c) ==
  /\ c \in DOMAIN readyState
  /\ readyState[c] = "OPEN"
  /\ nreq' = nreq + 1
  /\ readyState' = [readyState EXCEPT ![c] = "CLOSING"]
  /\ UNCHANGED <<configVars, contacts, conversations, messages, botInteractions,
                 gateway, clock, wsConnections, outbox, hs, ingested>>

\* (mutant: the handler drops the first entry without asking whose it is)
WsClose_FirstEntry(c) ==
  /\ c \in DOMAIN readyState
  /\ readyState[c] # "CLOSED"
  /\ nreq' = nreq + 1
  /\ readyState' = [readyState EXCEPT ![c] = "CLOSED"]
  /\ wsConnections' = IF MapKeys = {} THEN wsConnections ELSE MapDeleteAt(First(MapKeys))
  /\ UNCHANGED <<configVars, contacts, conversations, messages, botInteractions,
                 gateway, clock, outbox, hs, ingested>>

\* ws.on("close"): the socket is closed and the handler drops the first
\* entry of the registry that holds it -- and stops there (break).
WsClose(c) ==
  /\ c \in DOMAIN readyState
  /\ readyState[c] # "CLOSED"
  /\ nreq' = nreq + 1
  /\ readyState' = [readyState EXCEPT ![c] = "CLOSED"]
  /\ LET held == {k \in MapKeys : wsConnections[k].ws = c} IN
     wsConnections' = IF held = {} THEN wsConnections ELSE MapDeleteAt(First(held))
  /\ UNCHANGED <<configVars, contacts, conversations, messages, botInteractions,
                 gateway, clock, outbox, hs, ingested>>

(***************************************************************************)
(* Request handlers                                                        *)
(***************************************************************************)

IdleH ==
  [ pc |-> "idle", kind |-> NULL,
    \* the request's parameters, and the answer: status, body, session token
    query |-> <<>>, status |-> 0, body |-> NULL, token |-> <<>>,
    \* POST /api/webhook: change.value.metadata.phone_number_id, the messages
    \* of the change, and the position of the loop
    meta |-> NULL, msgs |-> <<>>, idx |-> 0,
    \* processIncomingMessage
    account |-> NoRow, contact |-> NoRow, conv |-> NoRow, unread |-> 0,
    mediaUrl |-> NULL, inMsg |-> NoRow,
    \* processBotResponse
    bot |-> NoRow, response |-> NULL, escalate |-> FALSE,
    \* processOutgoingMessage: its arguments and locals
    oConv |-> NoRow, oContact |-> NoRow, oContent |-> NULL, oType |-> NULL,
    messageId |-> NULL, outMsg |-> NoRow, stamp |-> 0,
    \* the user a sent message is broadcast to
    user |-> NULL,
    login |-> EmptyRecord ]

Set(h, r) == hs' = [hs EXCEPT ![h] = r]

\* The request is answered (status 0: a real-time frame, which has no answer).
\* The handler keeps the request and the answer until its next request.
Respond(r, status) ==
  [IdleH EXCEPT !.status = status, !.kind = r.kind, !.query = r.query,
                !.meta = r.meta, !.msgs = r.msgs]

\* The message the loop of POST /api/webhook is at.
Msg(r) == r.msgs[r.idx]

\* The cases of the switch on incomingMessage.type that fetch a media URL.
MediaTypes == {"image", "audio", "video", "document"}

\* incomingMessage.text?.body || "" for a text message, `[TYPE]` for media,
\* and the initial "" for a type the switch has no case for
Content(m) ==
  IF m.type = "text" THEN (IF m.body = NULL THEN "" ELSE m.body)
  ELSE IF m.type \in MediaTypes THEN "[" \o ToUpperCase(m.type) \o "]"
  ELSE ""

\* The inner loop of POST /api/webhook moves to its next message, or the
\* route answers 200 "OK".
NextMessage(r) ==
  IF r.idx < Len(r.msgs)
    THEN [IdleH EXCEPT !.pc = "wh_getWhatsappAccountsByUser", !.kind = r.kind,
                       !.meta = r.meta, !.msgs = r.msgs, !.idx = r.idx + 1]
    ELSE Respond(r, 200)

\* An exception leaves processIncomingMessage / processOutgoingMessage /
\* processBotResponse: the route's catch answers 500; handleRealtimeMessage
\* logs it.
\* (mutant: the exception is caught inside the loop, which goes on)
Throw_Continue(r) ==
  IF r.kind = "ws" THEN Respond(r, 0)
  ELSE IF r.kind = "webhook" THEN NextMessage(r)
  ELSE Respond(r, 500)

\* (mutant: the route's catch answers 200 "OK")
Throw_Ok(r) == IF r.kind = "ws" THEN Respond(r, 0) ELSE Respond(r, 200)

Throw(r) == IF r.kind = "ws" THEN Respond(r, 0) ELSE Respond(r, 500)

\* POST /api/webhook arrives with one change of field "messages".
StartWebhook(h, meta, msgs) ==
  /\ hs[h].pc = "idle"
  /\ nreq' = nreq + 1
  /\ Set(h, NextMessage([IdleH EXCEPT !.kind = "webhook", !.meta = meta, !.msgs = msgs]))
  /\ UNCHANGED <<configVars, contacts, conversations, messages, botInteractions,
                 gateway, clock, wsVars, ingested>>

\* await storage.getWhatsappAccountsByUser("system"); accounts.find(...)
WhGetWhatsappAccountsByUser(h) ==
  /\ hs[h].pc = "wh_getWhatsappAccountsByUser"
  /\ LET r == hs[h]
         accounts == getWhatsappAccountsByUser(SystemUser)
         account == First({i \in accounts : whatsappAccounts[i].phoneNumberId = r.meta})
     IN  IF account # NoRow
           THEN /\ Set(h, [r EXCEPT !.pc = "pim_getWhatsappAccount", !.account = account])
                /\ ingested' = Append(ingested, [account |-> account, message |-> Msg(r)])
           ELSE /\ Set(h, NextMessage(r))
                /\ UNCHANGED ingested
  /\ UNCHANGED <<configVars, contacts, conversations, messages, botInteractions,
                 gateway, clock, wsVars, nreq>>

\* processIncomingMessage: await storage.getWhatsappAccount(whatsappAccountId)
PimGetWhatsappAccount(h) ==
  /\ hs[h].pc = "pim_getWhatsappAccount"
  /\ LET r == hs[h] IN
     IF getWhatsappAccount(r.account) = NoRow
       THEN Set(h, Throw(r))
       ELSE Set(h, [r EXCEPT !.pc = "pim_getContactByPhone"])
  /\ UNCHANGED <<configVars, contacts, conversations, messages, botInteractions,
                 gateway, clock, wsVars, nreq, ingested>>

\* await storage.getContactByPhone(phone, whatsappAccount.userId)
PimGetContactByPhone(h) ==
  /\ hs[h].pc = "pim_getContactByPhone"
  /\ LET r == hs[h] IN
     \E c \in OneOf(getContactByPhone(Msg(r).from, whatsappAccounts[r.account].userId)) :
       Set(h, [r EXCEPT !.contact = c,
                        !.pc = IF c = NoRow THEN "pim_createContact" ELSE "pim_updateContact"])
  /\ UNCHANGED <<configVars, contacts, conversations, messages, botInteractions,
                 gateway, clock, wsVars, nreq, ingested>>

\* contact = await storage.createContact({...})
PimCreateContact(h) ==
  /\ hs[h].pc = "pim_createContact"
  /\ LET r == hs[h] IN
     /\ contacts' = Insert(contacts,
          [ userId |-> whatsappAccounts[r.account].userId,
            whatsappAccountId |-> r.account,
            name |-> Msg(r).from,
            phone |-> Msg(r).from,
            lastMessageAt |-> 0 ])
     /\ Set(h, [r EXCEPT !.contact = Len(contacts) + 1,
                         !.pc = "pim_getConversationByContact"])
  /\ UNCHANGED <<configVars, conversations, messages, botInteractions,
                 gateway, clock, wsVars, nreq, ingested>>

\* contact = await storage.updateContact(contact.id, {})
PimUpdateContact(h) ==
  /\ hs[h].pc = "pim_updateContact"
  /\ LET r == hs[h] IN
     /\ contacts' = Update(contacts, r.contact, EmptyRecord)
     /\ Set(h, [r EXCEPT !.pc = "pim_getConversationByContact"])
  /\ UNCHANGED <<configVars, conversations, messages, botInteractions,
                 gateway, clock, wsVars, nreq, ingested>>

\* (mutant: the conversation is created without looking one up)
PimGetConversationByContact_NoLookup(h) ==
  /\ hs[h].pc = "pim_getConversationByContact"
  /\ Set(h, [hs[h] EXCEPT !.conv = NoRow, !.unread = 0, !.pc = "pim_createConversation"])
  /\ UNCHANGED <<configVars, contacts, conversations, messages, botInteractions,
                 gateway, clock, wsVars, nreq, ingested>>

\* await storage.getConversationByContact(contact.id)
PimGetConversationByContact(h) ==
  /\ hs[h].pc = "pim_getConversationByContact"
  /\ LET r == hs[h] IN
     \E c \in OneOf(getConversationByContact(r.contact)) :
       Set(h, [r EXCEPT !.conv = c,
                        !.unread = IF c = NoRow THEN 0 ELSE conversations[c].unreadCount,
                        !.pc = IF c = NoRow THEN "pim_createConversation"
                               ELSE "pim_updateConversation"])
  /\ UNCHANGED <<configVars, contacts, conversations, messages, botInteractions,
                 gateway, clock, wsVars, nreq, ingested>>

\* After the conversation is found or created: the switch on the message
\* type, up to the next await.
AfterConversation(r) ==
  IF Msg(r).type \in MediaTypes /\ Msg(r).mediaId
    THEN [r EXCEPT !.pc = "pim_getMediaUrl"]
    ELSE [r EXCEPT !.pc = "pim_createMessage"]

\* conversation = await storage.createConversation({..., unreadCount: 1})
PimCreateConversation(h) ==
  /\ hs[h].pc = "pim_createConversation"
  /\ LET r == hs[h] IN
     /\ conversations' = Insert(conversations,
          [ userId |-> whatsappAccounts[r.account].userId,
            contactId |-> r.contact,
            whatsappAccountId |-> r.account,
            unreadCount |-> 1,
            lastMessageAt |-> 0 ])
     /\ Set(h, AfterConversation([r EXCEPT !.conv = Len(conversations) + 1]))
  /\ UNCHANGED <<configVars, contacts, messages, botInteractions,
                 gateway, clock, wsVars, nreq, ingested>>

\* conversation = await storage.updateConversation(conversation.id,
\*   { unreadCount: (conversation.unreadCount || 0) + 1 })
PimUpdateConversation(h) ==
  /\ hs[h].pc = "pim_updateConversation"
  /\ LET r == hs[h] IN
     /\ conversations' = Update(conversations, r.conv, [unreadCount |-> r.unread + 1])
     /\ Set(h, AfterConversation(r))
  /\ UNCHANGED <<configVars, contacts, messages, botInteractions,
                 gateway, clock, wsVars, nreq, ingested>>

\* The results of getMediaUrl: data.url, or null (no url, or the fetch threw).
MediaUrls == {"https://media.example/1", NULL}

\* (mutant: a media URL that cannot be resolved is an exception)
PimGetMediaUrl_Abort(h) ==
  /\ hs[h].pc = "pim_getMediaUrl"
  /\ \E url \in MediaUrls :
       IF url = NULL
         THEN Set(h, Throw(hs[h]))
         ELSE Set(h, [hs[h] EXCEPT !.mediaUrl = url, !.pc = "pim_createMessage"])
  /\ UNCHANGED <<configVars, contacts, conversations, messages, botInteractions,
                 gateway, clock, wsVars, nreq, ingested>>

\* mediaUrl = await this.getMediaUrl(mediaId)
PimGetMediaUrl(h) ==
  /\ hs[h].pc = "pim_getMediaUrl"
  /\ \E url \in MediaUrls :
       Set(h, [hs[h] EXCEPT !.mediaUrl = url, !.pc = "pim_createMessage"])
  /\ UNCHANGED <<configVars, contacts, conversations, messages, botInteractions,
                 gateway, clock, wsVars, nreq, ingested>>

\* (mutant: a message whose provider id is already stored is not stored again)
PimCreateMessage_Dedup(h) ==
  /\ hs[h].pc = "pim_createMessage"
  /\ LET r == hs[h]
         known == {i \in DOMAIN messages : messages[i].whatsappMessageId = Msg(r).id}
     IN
     /\ messages' =
          IF known # {} THEN messages
          ELSE Insert(messages,
                 [ conversationId |-> r.conv,
                   contactId |-> r.contact,
                   whatsappMessageId |-> Msg(r).id,
                   direction |-> "inbound",
                   type |-> Msg(r).type,
                   content |-> Content(Msg(r)),
                   mediaUrl |-> r.mediaUrl,
                   status |-> "delivered",
                   isFromBot |-> FALSE ])
     /\ UNCHANGED outbox
     /\ Set(h, [r EXCEPT !.inMsg = IF known # {} THEN CHOOSE i \in known : TRUE
                                    ELSE Len(messages) + 1,
                         !.pc = "wh_getChatbotsByUser"])
  /\ UNCHANGED <<configVars, contacts, conversations, botInteractions,
                 gateway, clock, wsConnections, readyState, nreq, ingested>>

\* const message = await storage.createMessage({... direction: "inbound" ...});
\* back in the route: broadcastToUser(account.userId, ...)
PimCreateMessage(h) ==
  /\ hs[h].pc = "pim_createMessage"
  /\ LET r == hs[h] IN
     /\ messages' = Insert(messages,
          [ conversationId |-> r.conv,
            contactId |-> r.contact,
            whatsappMessageId |-> Msg(r).id,
            direction |-> "inbound",
            type |-> Msg(r).type,
            content |-> Content(Msg(r)),
            mediaUrl |-> r.mediaUrl,
            status |-> "delivered",
            isFromBot |-> FALSE ])
     /\ outbox' = broadcastToUser(whatsappAccounts[r.account].userId,
                                  [type |-> "new_message", message |-> Len(messages) + 1])
     /\ Set(h, [r EXCEPT !.inMsg = Len(messages) + 1, !.pc = "wh_getChatbotsByUser"])
  /\ UNCHANGED <<configVars, contacts, conversations, botInteractions,
                 gateway, clock, wsConnections, readyState, nreq, ingested>>

\* (mutant: the failure undoes the contact row written last)
PimCreateConversationFails_Rollback(h) ==
  /\ hs[h].pc = "pim_createConversation"
  /\ Set(h, Throw(hs[h]))
  /\ contacts' = SubSeq(contacts, 1, Len(contacts) - 1)
  /\ UNCHANGED <<configVars, conversations, messages, botInteractions,
                 gateway, clock, wsVars, nreq, ingested>>

\* storage.createConversation rejects (the database fails): the exception
\* leaves processIncomingMessage, which has no try and no transaction, and
\* the route's catch answers 500.
PimCreateConversationFails(h) ==
  /\ hs[h].pc = "pim_createConversation"
  /\ Set(h, Throw(hs[h]))
  /\ UNCHANGED <<configVars, contacts, conversations, messages, botInteractions,
                 gateway, clock, wsVars, nreq, ingested>>

\* storage.createMessage rejects, likewise.
PimCreateMessageFails(h) ==
  /\ hs[h].pc = "pim_createMessage"
  /\ Set(h, Throw(hs[h]))
  /\ UNCHANGED <<configVars, contacts, conversations, messages, botInteractions,
                 gateway, clock, wsVars, nreq, ingested>>

\* const userBots = await storage.getChatbotsByUser(account.userId);
\* const activeBot = userBots.find(bot => bot.isActive)
WhGetChatbotsByUser(h) ==
  /\ hs[h].pc = "wh_getChatbotsByUser"
  /\ LET r == hs[h]
         userBots == getChatbotsByUser(whatsappAccounts[r.account].userId)
     IN  \* userBots.find(bot => bot.isActive): the first active row in the
         \* order of a select that has no ORDER BY
         \E activeBot \in OneOf({i \in userBots : chatbots[i].isActive}) :
           IF activeBot # NoRow
             THEN Set(h, [r EXCEPT !.bot = activeBot, !.pc = "bot_getChatbot"])
             ELSE Set(h, NextMessage(r))
  /\ UNCHANGED <<configVars, contacts, conversations, messages, botInteractions,
                 gateway, clock, wsVars, nreq, ingested>>

\* update chatbots set(updates) where id = ...
updateChatbot(id, updates) == Update(chatbots, id, updates)

\* A chatbot is switched on or off while requests are served: a write of
\* updateChatbot (the storage method has no caller among the routes; the
\* table is shared with whatever administers the chatbots).
ChatbotSwitched(cb) ==
  /\ cb \in DOMAIN chatbots
  /\ nreq' = nreq + 1
  /\ chatbots' = updateChatbot(cb, [isActive |-> ~chatbots[cb].isActive])
  /\ UNCHANGED <<users, whatsappAccounts, credentials, webhookEvents,
                 contacts, conversations, messages, botInteractions,
                 gateway, clock, wsVars, hs, ingested>>

\* (mutant: the chatbot read is not asked whether it is active)
BotGetChatbot_AnyChatbot(h) ==
  /\ hs[h].pc = "bot_getChatbot"
  /\ LET r == hs[h]
         chatbot == getChatbot(r.bot)
         content == messages[r.inMsg].content
         response == generateResponse(chatbots[chatbot], content)
         shouldEscalate == shouldEscalateToHuman(content)
     IN  IF chatbot = NoRow
           THEN Set(h, NextMessage(r))
         ELSE IF response = ""
           THEN Set(h, NextMessage(r))
         ELSE Set(h, [r EXCEPT
                 !.response = IF shouldEscalate THEN response \o EscalationNotice
                              ELSE response,
                 !.escalate = shouldEscalate,
                 !.oConv = r.conv, !.oContact = r.contact,
                 !.oContent = IF shouldEscalate THEN response \o EscalationNotice
                              ELSE response,
                 !.oType = "text",
                 !.pc = "out_getContact"])
  /\ UNCHANGED <<configVars, contacts, conversations, messages, botInteractions,
                 gateway, clock, wsVars, nreq, ingested>>

\* processBotResponse: const chatbot = await storage.getChatbot(chatbotId);
\* generateResponse, shouldEscalateToHuman, and the call of
\* processOutgoingMessage(conversation.id, contact.id, response, "text")
BotGetChatbot(h) ==
  /\ hs[h].pc = "bot_getChatbot"
  /\ LET r == hs[h]
         chatbot == getChatbot(r.bot)
         content == messages[r.inMsg].content
         response == generateResponse(chatbots[chatbot], content)
         shouldEscalate == shouldEscalateToHuman(content)
     IN  IF chatbot = NoRow \/ ~chatbots[chatbot].isActive
           THEN Set(h, NextMessage(r))
         ELSE IF response = ""
           THEN Set(h, NextMessage(r))
         ELSE Set(h, [r EXCEPT
                 !.response = IF shouldEscalate THEN response \o EscalationNotice
                              ELSE response,
                 !.escalate = shouldEscalate,
                 !.oConv = r.conv, !.oContact = r.contact,
                 !.oContent = IF shouldEscalate THEN response \o EscalationNotice
                              ELSE response,
                 !.oType = "text",
                 !.pc = "out_getContact"])
  /\ UNCHANGED <<configVars, contacts, conversations, messages, botInteractions,
                 gateway, clock, wsVars, nreq, ingested>>

(***************************************************************************)
(* WhatsAppService.processOutgoingMessage, called by the bot, by           *)
(* POST /api/messages and by handleRealtimeMessage                         *)
(***************************************************************************)

\* processOutgoingMessage returns its message to the caller.
ReturnMessage(r) ==
  IF r.kind = "webhook" THEN [r EXCEPT !.pc = "bot_updateMessage"]
  ELSE IF r.kind = "http" THEN Respond(r, 200)
  ELSE Respond(r, 0)

\* What the caller broadcasts once it has the message: the bot nothing, the
\* two senders a new_message frame to req.user.id / data.userId.
BroadcastSent(r) ==
  IF r.kind = "webhook" THEN outbox
  ELSE broadcastToUser(r.user, [type |-> "new_message", message |-> r.outMsg])

\* POST /api/messages (behind authenticateToken, which set req.user) and the
\* real-time frame {type: "send_message", ...}.
StartSend(h, kind, user, conversationId, contactId, content, type) ==
  /\ hs[h].pc = "idle"
  /\ nreq' = nreq + 1
  /\ IF kind = "http" /\ (conversationId = NoRow \/ contactId = NoRow \/ content = "")
       THEN Set(h, Respond([IdleH EXCEPT !.kind = kind], 400))
       ELSE Set(h, [IdleH EXCEPT !.kind = kind, !.user = user,
                                 !.oConv = conversationId, !.oContact = contactId,
                                 !.oContent = content,
                                 !.oType = IF kind = "http" THEN type ELSE "text",
                                 !.pc = "out_getContact"])
  /\ UNCHANGED <<configVars, contacts, conversations, messages, botInteractions,
                 gateway, clock, wsVars, ingested>>

\* const contact = await storage.getContact(contactId)
OutGetContact(h) ==
  /\ hs[h].pc = "out_getContact"
  /\ LET r == hs[h] IN
     IF getContact(r.oContact) = NoRow
       THEN Set(h, Throw(r))
       ELSE Set(h, [r EXCEPT !.pc = "out_sendTextMessage"])
  /\ UNCHANGED <<configVars, contacts, conversations, messages, botInteractions,
                 gateway, clock, wsVars, nreq, ingested>>

\* (mutant: a POST that failed is made once more)
sendTextMessage_Retry(to, text) ==
  IF ~credentials THEN {<<FALSE, <<>> >>}
  ELSE {<<TRUE, <<[to |-> to, text |-> text, success |-> TRUE]>> >>}
         \cup {<<ok, <<[to |-> to, text |-> text, success |-> FALSE],
                       [to |-> to, text |-> text, success |-> ok]>> >> :
                 ok \in BOOLEAN}

\* sendTextMessage / sendMessage: without credentials no POST is made; the
\* single POST succeeds (response.ok, with the provider's message id) or fails
\* (an error response, or fetch threw).  The result: <<success, POSTs made>>.
sendTextMessage(to, text) ==
  IF ~credentials THEN {<<FALSE, <<>> >>}
  ELSE {<<ok, <<[to |-> to, text |-> text, success |-> ok]>> >> : ok \in BOOLEAN}

\* data.messages[0].id of the n-th POST
ProviderMessageId(n) == "wamid.out." \o ToString(n)

\* (mutant: the result's success flag is not looked at)
OutSendTextMessage_IgnoreFailure(h) ==
  /\ hs[h].pc = "out_sendTextMessage"
  /\ LET r == hs[h] IN
     \E result \in sendTextMessage(contacts[r.oContact].phone, r.oContent) :
       /\ gateway' = gateway \o result[2]
       /\ Set(h, [r EXCEPT !.messageId = ProviderMessageId(Len(gateway')),
                           !.pc = "out_createMessage"])
  /\ UNCHANGED <<configVars, contacts, conversations, messages, botInteractions,
                 clock, wsVars, nreq, ingested>>

\* (mutant: a send that failed is recorded as a message of status "failed")
OutSendTextMessage_RecordFailure(h) ==
  /\ hs[h].pc = "out_sendTextMessage"
  /\ LET r == hs[h] IN
     \E result \in sendTextMessage(contacts[r.oContact].phone, r.oContent) :
       /\ gateway' = gateway \o result[2]
       /\ IF ~result[1]
            THEN /\ Set(h, Throw(r))
                 /\ messages' = Insert(messages,
                      [ conversationId |-> r.oConv, contactId |-> r.oContact,
                        whatsappMessageId |-> NULL, direction |-> "outbound",
                        type |-> r.oType, content |-> r.oContent,
                        mediaUrl |-> NULL, status |-> "failed",
                        isFromBot |-> FALSE ])
            ELSE /\ Set(h, [r EXCEPT !.messageId = ProviderMessageId(Len(gateway')),
                                     !.pc = "out_createMessage"])
                 /\ UNCHANGED messages
  /\ UNCHANGED <<configVars, contacts, conversations, botInteractions,
                 clock, wsVars, nreq, ingested>>

\* const result = await this.sendTextMessage(contact.phone, content);
\* if (!result.success) throw ...
OutSendTextMessage(h) ==
  /\ hs[h].pc = "out_sendTextMessage"
  /\ LET r == hs[h] IN
     \E result \in sendTextMessage(contacts[r.oContact].phone, r.oContent) :
       /\ gateway' = gateway \o result[2]
       /\ IF ~result[1]
            THEN Set(h, Throw(r))
            ELSE Set(h, [r EXCEPT !.messageId = ProviderMessageId(Len(gateway')),
                                  !.pc = "out_createMessage"])
  /\ UNCHANGED <<configVars, contacts, conversations, messages, botInteractions,
                 clock, wsVars, nreq, ingested>>

\* const message = await storage.createMessage({... direction: "outbound",
\*   status: "sent"})
OutCreateMessage(h) ==
  /\ hs[h].pc = "out_createMessage"
  /\ LET r == hs[h] IN
     /\ messages' = Insert(messages,
          [ conversationId |-> r.oConv,
            contactId |-> r.oContact,
            whatsappMessageId |-> r.messageId,
            direction |-> "outbound",
            type |-> r.oType,
            content |-> r.oContent,
            mediaUrl |-> NULL,
            status |-> "sent",
            isFromBot |-> FALSE ])
     /\ Set(h, [r EXCEPT !.outMsg = Len(messages) + 1, !.pc = "out_getConversation"])
  /\ UNCHANGED <<configVars, contacts, conversations, botInteractions,
                 gateway, clock, wsVars, nreq, ingested>>

\* const conversation = await storage.getConversation(conversationId);
\* if (conversation) { ... lastMessageAt: new Date() ... }
OutGetConversation(h) ==
  /\ hs[h].pc = "out_getConversation"
  /\ LET r == hs[h] IN
     IF getConversation(r.oConv) # NoRow
       THEN /\ clock' = clock + 1
            /\ Set(h, [r EXCEPT !.stamp = clock + 1, !.pc = "out_updateConversation"])
            /\ UNCHANGED outbox
       ELSE /\ UNCHANGED clock
            /\ outbox' = BroadcastSent(r)
            /\ Set(h, ReturnMessage(r))
  /\ UNCHANGED <<configVars, contacts, conversations, messages, botInteractions,
                 gateway, wsConnections, readyState, nreq, ingested>>

\* (mutant: replying also marks the conversation as read)
OutUpdateConversation_MarkRead(h) ==
  /\ hs[h].pc = "out_updateConversation"
  /\ LET r == hs[h] IN
     /\ conversations' = Update(conversations, r.oConv,
                                [lastMessageAt |-> r.stamp, unreadCount |-> 0])
     /\ outbox' = BroadcastSent(r)
     /\ Set(h, ReturnMessage(r))
  /\ UNCHANGED <<configVars, contacts, messages, botInteractions,
                 gateway, clock, wsConnections, readyState, nreq, ingested>>

\* await storage.updateConversation(conversationId, { lastMessageAt: ... });
\* return message
OutUpdateConversation(h) ==
  /\ hs[h].pc = "out_updateConversation"
  /\ LET r == hs[h] IN
     /\ conversations' = Update(conversations, r.oConv, [lastMessageAt |-> r.stamp])
     /\ outbox' = BroadcastSent(r)
     /\ Set(h, ReturnMessage(r))
  /\ UNCHANGED <<configVars, contacts, messages, botInteractions,
                 gateway, clock, wsConnections, readyState, nreq, ingested>>

\* (mutant: the reply is not tagged)
BotUpdateMessage_Skip(h) ==
  /\ hs[h].pc = "bot_updateMessage"
  /\ Set(h, [hs[h] EXCEPT !.pc = "bot_createBotInteraction"])
  /\ UNCHANGED <<configVars, contacts, conversations, messages, botInteractions,
                 gateway, clock, wsVars, nreq, ingested>>

\* await storage.updateMessage(botMessage.id, { isFromBot: true })
BotUpdateMessage(h) ==
  /\ hs[h].pc = "bot_updateMessage"
  /\ LET r == hs[h] IN
     /\ messages' = Update(messages, r.outMsg, [isFromBot |-> TRUE])
     /\ Set(h, [r EXCEPT !.pc = "bot_createBotInteraction"])
  /\ UNCHANGED <<configVars, contacts, conversations, botInteractions,
                 gateway, clock, wsVars, nreq, ingested>>

\* await storage.createBotInteraction({...}); return true.  (responseTime,
\* a difference of two clock readings, is not modelled.)
BotCreateBotInteraction(h) ==
  /\ hs[h].pc = "bot_createBotInteraction"
  /\ LET r == hs[h] IN
     /\ botInteractions' = Insert(botInteractions,
          [ chatbotId |-> r.bot,
            contactId |-> r.contact,
            messageId |-> r.inMsg,
            trigger |-> messages[r.inMsg].content,
            response |-> r.response,
            wasEscalated |-> r.escalate ])
     /\ Set(h, NextMessage(r))
  /\ UNCHANGED <<configVars, contacts, conversations, messages,
                 gateway, clock, wsVars, nreq, ingested>>

(***************************************************************************)
(* GET /api/webhook: the subscription handshake                            *)
(***************************************************************************)

\* process.env.VERIFY_TOKEN || "mi_token_de_verificacion"
VERIFY_TOKEN == "mi_token_de_verificacion"

\* The truth value JavaScript gives a string or an absent value.
Truthy(v) == v # NULL /\ v # ""

\* WhatsAppService.verifyWebhook(verifyToken, mode, challenge)
verifyWebhook(verifyToken, mode, challenge) ==
  IF mode = "subscribe" /\ verifyToken = VERIFY_TOKEN THEN challenge ELSE NULL

\* The route: no await, so the whole handler is one step.  A query parameter
\* the request does not carry is NULL.
GetWebhook(h, mode, token, challenge) ==
  /\ hs[h].pc = "idle"
  /\ LET result == verifyWebhook(token, mode, challenge)
         r == [IdleH EXCEPT !.kind = "GET /api/webhook",
                            !.query = [mode |-> mode, token |-> token,
                                       challenge |-> challenge]]
     IN  Set(h, IF Truthy(result)
                  THEN [Respond(r, 200) EXCEPT !.body = result]
                  ELSE [Respond(r, 403) EXCEPT !.body = "Forbidden"])
  /\ UNCHANGED <<configVars, contacts, conversations, messages, botInteractions,
                 gateway, clock, wsVars, nreq, ingested>>

(***************************************************************************)
(* ChatbotProcessor.generateResponse, called on its own                    *)
(***************************************************************************)

\* const response = await this.generateResponse(chatbot, messageContent),
\* for a chatbot of the given template and a message text.
CallGenerateResponse(h, template, text) ==
  /\ hs[h].pc = "idle"
  /\ Set(h, [IdleH EXCEPT !.kind = "generateResponse",
                          !.query = [template |-> template, text |-> text],
                          !.body = generateResponse(
                                     [userId |-> SystemUser, name |-> "Acme",
                                      template |-> template, isActive |-> TRUE],
                                     text)])
  /\ UNCHANGED <<configVars, contacts, conversations, messages, botInteractions,
                 gateway, clock, wsVars, nreq, ingested>>

(***************************************************************************)
(* Sessions: passwords, tokens, POST /api/auth/login and loginWithEmail    *)
(***************************************************************************)

\* process.env.JWT_SECRET || "your-secret-key"
JWT_SECRET == "your-secret-key"

\* expiresIn: "7d".  Time is what `clock` reads, in days.
TokenLifetime == 7

\* bcrypt.hash(password, 12): the hash is a text that is not the password and
\* that only this password matches.
hashPassword(password) == "$2b$12$" \o password

\* bcrypt.compare(password, hash)
verifyPassword(password, hash) == hash = hashPassword(password)

\* jwt.sign({ userId }, JWT_SECRET, { expiresIn: "7d" }): the payload, the key
\* that signed it and the day it expires.
generateToken(userId) ==
  [userId |-> userId, key |-> JWT_SECRET, exp |-> clock + TokenLifetime]

\* What verifyToken returns for a token that does not verify.
Nobody == [userId |-> NULL]

\* jwt.verify(token, JWT_SECRET), null when it throws
verifyToken(token) ==
  IF token.key = JWT_SECRET /\ clock < token.exp
    THEN [userId |-> token.userId]
    ELSE Nobody

getUserByEmail(email) == {i \in DOMAIN users : users[i].email = email}

\* update users set(updates) where id = ...
updateUser(id, updates) ==
  [i \in DOMAIN users |->
     IF users[i].id = id
       THEN [f \in DOMAIN users[i] |->
               IF f \in DOMAIN updates THEN updates[f] ELSE users[i][f]]
       ELSE users[i]]

LoginFrame ==
  <<whatsappAccounts, chatbots, credentials, webhookEvents, contacts, conversations, messages,
    botInteractions, gateway, wsVars, ingested>>

\* POST /api/auth/login arrives; a missing or empty field is answered 400.
StartLogin(h, email, password) ==
  /\ hs[h].pc = "idle"
  /\ nreq' = nreq + 1
  /\ LET r == [IdleH EXCEPT !.kind = "POST /api/auth/login",
                            !.query = [email |-> email, password |-> password]]
     IN  Set(h, IF ~Truthy(email) \/ ~Truthy(password)
                  THEN Respond(r, 400)
                  ELSE [r EXCEPT !.pc = "login_getUserByEmail"])
  /\ UNCHANGED <<LoginFrame, users, clock>>

\* const user = await storage.getUserByEmail(email);
\* if (!user || !user.password) return null   -- the route answers 401
LoginGetUserByEmail(h) ==
  /\ hs[h].pc = "login_getUserByEmail"
  /\ LET r == hs[h] IN
     \E u \in OneOf(getUserByEmail(r.query.email)) :
       Set(h, IF u = NoRow \/ ~Truthy(users[u].password)
                THEN Respond(r, 401)
                ELSE [r EXCEPT !.pc = "login_verifyPassword", !.login = users[u]])
  /\ UNCHANGED <<LoginFrame, users, clock, nreq>>

\* (mutant: the outcome of the comparison is not looked at)
LoginVerifyPassword_AnyPassword(h) ==
  /\ hs[h].pc = "login_verifyPassword"
  /\ LET r == hs[h] IN
       /\ clock' = clock + 1
       /\ Set(h, [r EXCEPT !.pc = "login_updateUser", !.stamp = clock'])
  /\ UNCHANGED <<LoginFrame, users, nreq>>

\* const isValid = await verifyPassword(password, user.password);
\* if (!isValid) return null; else new Date() is read for the update
LoginVerifyPassword(h) ==
  /\ hs[h].pc = "login_verifyPassword"
  /\ LET r == hs[h] IN
     IF verifyPassword(r.query.password, r.login.password)
       THEN /\ clock' = clock + 1
            /\ Set(h, [r EXCEPT !.pc = "login_updateUser", !.stamp = clock'])
       ELSE /\ Set(h, Respond(r, 401))
            /\ UNCHANGED clock
  /\ UNCHANGED <<LoginFrame, users, nreq>>

\* await storage.updateUser(user.id, { lastLogin }); generateToken(user.id);
\* the route answers 200 with { user, token }
LoginUpdateUser(h) ==
  /\ hs[h].pc = "login_updateUser"
  /\ LET r == hs[h] IN
       /\ users' = updateUser(r.login.id, [lastLogin |-> r.stamp])
       /\ Set(h, [Respond(r, 200) EXCEPT !.body = r.login.id,
                                         !.token = generateToken(r.login.id)])
  /\ UNCHANGED <<LoginFrame, clock, nreq>>

LoginStep(h) ==
  \/ LoginGetUserByEmail(h)
  \/ LoginVerifyPassword(h)
  \/ LoginUpdateUser(h)

(***************************************************************************)
(* POST /api/auth/firebase and loginWithFirebase; POST /api/auth/ceo-login *)
(* and loginAsCEO                                                          *)
(***************************************************************************)

\* process.env.CEO_MASTER_TOKEN || "ceo-master-token-2024"
CEO_MASTER_TOKEN == "ceo-master-token-2024"

getUserByFirebaseUid(firebaseUid) ==
  {i \in DOMAIN users : users[i].firebaseUid = firebaseUid}

\* The id the database gives the next user.
NewUserId == "u" \o ToString(Len(users) + 1)

\* insert into users values(insertUser) returning: the columns the caller
\* gives, the others empty (is_active is on for a new row; the caller gives
\* no lastLogin, 0 is "never").
createUser(insertUser) ==
  Insert(users,
    [f \in {"id", "email", "password", "role", "isActive", "lastLogin",
            "firebaseUid", "ceoToken"} |->
       IF f \in DOMAIN insertUser THEN insertUser[f]
       ELSE IF f = "id" THEN NewUserId
       ELSE IF f = "isActive" THEN TRUE
       ELSE IF f = "lastLogin" THEN 0
       ELSE IF f = "role" THEN "user"
       ELSE NULL])

\* res.json({ user, token }) for the user of the given id
Session(r, id) ==
  [Respond(r, 200) EXCEPT !.body = id, !.token = generateToken(id)]

\* POST /api/auth/firebase arrives; without uid or provider it is answered 400.
StartFirebase(h, firebaseUid, email) ==
  /\ hs[h].pc = "idle"
  /\ nreq' = nreq + 1
  /\ LET r == [IdleH EXCEPT !.kind = "POST /api/auth/firebase",
                            !.query = [firebaseUid |-> firebaseUid, email |-> email]]
     IN  Set(h, IF ~Truthy(firebaseUid) THEN Respond(r, 400)
                ELSE [r EXCEPT !.pc = "fb_getUserByFirebaseUid"])
  /\ UNCHANGED <<LoginFrame, users, clock>>

\* let user = await storage.getUserByFirebaseUid(firebaseUid); the else
\* branch reads new Date() for its update.
FbGetUserByFirebaseUid(h) ==
  /\ hs[h].pc = "fb_getUserByFirebaseUid"
  /\ LET r == hs[h] IN
     \E u \in OneOf(getUserByFirebaseUid(r.query.firebaseUid)) :
       IF u = NoRow
         THEN /\ Set(h, [r EXCEPT !.pc = "fb_createUser"])
              /\ UNCHANGED clock
         ELSE /\ clock' = clock + 1
              /\ Set(h, [r EXCEPT !.pc = "fb_updateUser", !.login = users[u],
                                  !.stamp = clock'])
  /\ UNCHANGED <<LoginFrame, users, nreq>>

\* user = await storage.createUser({ email, firebaseUid, role: "user", ... });
\* generateToken(user.id)
FbCreateUser(h) ==
  /\ hs[h].pc = "fb_createUser"
  /\ LET r == hs[h] IN
       /\ users' = createUser([email |-> r.query.email,
                               firebaseUid |-> r.query.firebaseUid,
                               role |-> "user"])
       /\ Set(h, Session(r, NewUserId))
  /\ UNCHANGED <<LoginFrame, clock, nreq>>

\* await storage.updateUser(user.id, { lastLogin }); generateToken(user.id)
FbUpdateUser(h) ==
  /\ hs[h].pc = "fb_updateUser"
  /\ LET r == hs[h] IN
       /\ users' = updateUser(r.login.id, [lastLogin |-> r.stamp])
       /\ Set(h, Session(r, r.login.id))
  /\ UNCHANGED <<LoginFrame, clock, nreq>>

FirebaseStep(h) ==
  \/ FbGetUserByFirebaseUid(h)
  \/ FbCreateUser(h)
  \/ FbUpdateUser(h)

\* POST /api/auth/ceo-login arrives: 400 without email or token; loginAsCEO
\* returns null before its first await when the token is not the master
\* token, and the route answers 401.
StartCeoLogin(h, email, token) ==
  /\ hs[h].pc = "idle"
  /\ nreq' = nreq + 1
  /\ LET r == [IdleH EXCEPT !.kind = "POST /api/auth/ceo-login",
                            !.query = [email |-> email, token |-> token]]
     IN  Set(h, IF ~Truthy(email) \/ ~Truthy(token) THEN Respond(r, 400)
                ELSE IF token # CEO_MASTER_TOKEN THEN Respond(r, 401)
                ELSE [r EXCEPT !.pc = "ceo_getUserByEmail"])
  /\ UNCHANGED <<LoginFrame, users, clock>>

\* let user = await storage.getUserByEmail(email); the two update branches
\* read new Date().
CeoGetUserByEmail(h) ==
  /\ hs[h].pc = "ceo_getUserByEmail"
  /\ LET r == hs[h] IN
     \E u \in OneOf(getUserByEmail(r.query.email)) :
       IF u = NoRow
         THEN /\ Set(h, [r EXCEPT !.pc = "ceo_createUser"])
              /\ UNCHANGED clock
         ELSE /\ clock' = clock + 1
              /\ Set(h, [r EXCEPT !.pc = IF users[u].role # "ceo"
                                           THEN "ceo_promote"
                                           ELSE "ceo_updateUser",
                                  !.login = users[u], !.stamp = clock'])
  /\ UNCHANGED <<LoginFrame, users, nreq>>

\* user = await storage.createUser({ email, role: "ceo", ceoToken: token, ... })
CeoCreateUser(h) ==
  /\ hs[h].pc = "ceo_createUser"
  /\ LET r == hs[h] IN
       /\ users' = createUser([email |-> r.query.email, role |-> "ceo",
                               ceoToken |-> r.query.token])
       /\ Set(h, Session(r, NewUserId))
  /\ UNCHANGED <<LoginFrame, clock, nreq>>

\* (mutant: an existing user only gets the login recorded)
CeoPromote_KeepRole(h) ==
  /\ hs[h].pc = "ceo_promote"
  /\ LET r == hs[h] IN
       /\ users' = updateUser(r.login.id, [lastLogin |-> r.stamp])
       /\ Set(h, Session(r, r.login.id))
  /\ UNCHANGED <<LoginFrame, clock, nreq>>

\* user = await storage.updateUser(user.id, { role: "ceo", ceoToken, lastLogin })
CeoPromote(h) ==
  /\ hs[h].pc = "ceo_promote"
  /\ LET r == hs[h] IN
       /\ users' = updateUser(r.login.id, [role |-> "ceo", ceoToken |-> r.query.token,
                                           lastLogin |-> r.stamp])
       /\ Set(h, Session(r, r.login.id))
  /\ UNCHANGED <<LoginFrame, clock, nreq>>

\* await storage.updateUser(user.id, { lastLogin })
CeoUpdateUser(h) ==
  /\ hs[h].pc = "ceo_updateUser"
  /\ LET r == hs[h] IN
       /\ users' = updateUser(r.login.id, [lastLogin |-> r.stamp])
       /\ Set(h, Session(r, r.login.id))
  /\ UNCHANGED <<LoginFrame, clock, nreq>>

CeoStep(h) ==
  \/ CeoGetUserByEmail(h)
  \/ CeoCreateUser(h)
  \/ CeoPromote(h)
  \/ CeoUpdateUser(h)

(***************************************************************************)
(* authenticateToken and requireRole, in front of GET /api/admin/users     *)
(***************************************************************************)

\* The request carries no Authorization header, or one without a token part.
NoToken == <<>>

\* requireRole(["ceo", "admin"])
AdminRoles == {"ceo", "admin"}

getUser(id) == {i \in DOMAIN users : users[i].id = id}

\* requireRole(roles)(req, res, next): the status it answers, 0 for next().
requireRole(roles, reqUser) ==
  IF reqUser = EmptyRecord THEN 401
  ELSE IF reqUser.role \notin roles THEN 403
  ELSE 0

\* authenticateToken up to its await: no token 401, a token that does not
\* verify 403.
StartGuarded(h, token) ==
  /\ hs[h].pc = "idle"
  /\ nreq' = nreq + 1
  /\ LET r == [IdleH EXCEPT !.kind = "GET /api/admin/users",
                            !.query = [token |-> token]]
     IN  Set(h, IF token = NoToken THEN Respond(r, 401)
                ELSE IF verifyToken(token) = Nobody THEN Respond(r, 403)
                ELSE [r EXCEPT !.pc = "auth_getUser",
                               !.user = verifyToken(token).userId])
  /\ UNCHANGED <<LoginFrame, users, clock>>

\* const user = await storage.getUser(decoded.userId); 403 unless it exists
\* and is active; req.user = user; next(): requireRole, then the handler,
\* which answers 200.
AuthGetUser(h) ==
  /\ hs[h].pc = "auth_getUser"
  /\ LET r == hs[h] IN
     \E u \in OneOf(getUser(r.user)) :
       Set(h, IF u = NoRow \/ ~users[u].isActive THEN Respond(r, 403)
              ELSE LET denied == requireRole(AdminRoles, users[u]) IN
                   IF denied # 0 THEN Respond(r, denied)
                   ELSE [Respond(r, 200) EXCEPT !.login = users[u]])
  /\ UNCHANGED <<LoginFrame, users, clock, nreq>>

\* (mutant: the token's user must be stored and active, as in
\* authenticateToken)
WsAuth_ActiveUsersOnly(c, token) ==
  /\ c \in DOMAIN readyState
  /\ readyState[c] = "OPEN"
  /\ nreq' = nreq + 1
  /\ IF /\ token # NoToken /\ verifyToken(token) # Nobody
        /\ \E u \in getUser(verifyToken(token).userId) : users[u].isActive
       THEN /\ wsConnections' = MapSet(verifyToken(token).userId, c)
            /\ outbox' = [outbox EXCEPT ![c] = Append(@, [type |-> "auth_success"])]
       ELSE UNCHANGED <<wsConnections, outbox>>
  /\ UNCHANGED <<configVars, contacts, conversations, messages, botInteractions,
                 gateway, clock, readyState, hs, ingested>>

\* ws.on("message") with {type: "auth", token}: a token that verifies puts
\* the connection in the registry under the token's user id and is answered
\* auth_success; any other token is ignored.
WsAuth(c, token) ==
  /\ c \in DOMAIN readyState
  /\ readyState[c] = "OPEN"
  /\ nreq' = nreq + 1
  /\ IF token # NoToken /\ verifyToken(token) # Nobody
       THEN /\ wsConnections' = MapSet(verifyToken(token).userId, c)
            /\ outbox' = [outbox EXCEPT ![c] = Append(@, [type |-> "auth_success"])]
       ELSE UNCHANGED <<wsConnections, outbox>>
  /\ UNCHANGED <<configVars, contacts, conversations, messages, botInteractions,
                 gateway, clock, readyState, hs, ingested>>

\* (mutant: a send_message frame of a connection that has not authenticated
\* is dropped)
WsSendMessage_AuthenticatedOnly(c, h, userId, conversationId, contactId, content) ==
  /\ c \in DOMAIN readyState
  /\ readyState[c] = "OPEN"
  /\ hs[h].pc = "idle"
  /\ nreq' = nreq + 1
  /\ LET r == [IdleH EXCEPT
                 !.kind = "ws",
                 !.query = [conn |-> c, userId |-> userId,
                            conversationId |-> conversationId,
                            contactId |-> contactId, content |-> content]]
     IN  IF \E k \in MapKeys : wsConnections[k].ws = c
           THEN Set(h, [r EXCEPT !.user = userId,
                                 !.oConv = conversationId, !.oContact = contactId,
                                 !.oContent = content, !.oType = "text",
                                 !.pc = "out_getContact"])
           ELSE Set(h, Respond(r, 0))
  /\ UNCHANGED <<configVars, contacts, conversations, messages, botInteractions,
                 gateway, clock, wsVars, ingested>>

\* ws.on("message") on connection c with {type: "send_message", userId,
\* conversationId, contactId, content}: handleRealtimeMessage(message) calls
\* processOutgoingMessage(conversationId, contactId, content) and will
\* broadcast to data.userId.  Neither asks who the connection is.
WsSendMessage(c, h, userId, conversationId, contactId, content) ==
  /\ c \in DOMAIN readyState
  /\ readyState[c] = "OPEN"
  /\ hs[h].pc = "idle"
  /\ nreq' = nreq + 1
  /\ LET r == [IdleH EXCEPT
                 !.kind = "ws",
                 !.query = [conn |-> c, userId |-> userId,
                            conversationId |-> conversationId,
                            contactId |-> contactId, content |-> content]]
     IN  Set(h, [r EXCEPT !.user = userId,
                          !.oConv = conversationId, !.oContact = contactId,
                          !.oContent = content, !.oType = "text",
                          !.pc = "out_getContact"])
  /\ UNCHANGED <<configVars, contacts, conversations, messages, botInteractions,
                 gateway, clock, wsVars, ingested>>

(***************************************************************************)
(* Initial states and inputs                                               *)
(***************************************************************************)

\* Two connected numbers: one owned by the user id the webhook route looks
\* accounts up for, one owned by an ordinary user.
Accounts ==
  << [userId |-> SystemUser, phoneNumberId |-> "pn1"],
     [userId |-> "u1", phoneNumberId |-> "pn2"] >>

Bot(userId, template, isActive) ==
  [userId |-> userId, name |-> "Acme", template |-> template, isActive |-> isActive]

\* The chatbots table: empty, or an active "corporate" chatbot for each owner.
ChatbotConfigs ==
  { <<>>,
    << Bot(SystemUser, "corporate", TRUE), Bot("u1", "corporate", TRUE) >> }

Phones == {"5551234", "5550000"}
MessageIds == {"wamid.A", "wamid.B"}

TextMessage(from, id, body) ==
  [from |-> from, id |-> id, type |-> "text", body |-> body, mediaId |-> FALSE]

MediaMessage(from, id, type, mediaId) ==
  [from |-> from, id |-> id, type |-> type, body |-> NULL, mediaId |-> mediaId]

\* The state after start-up, with the given users, chatbots and credentials.
InitWith(us, bots, creds) ==
  /\ users = us
  /\ whatsappAccounts = Accounts
  /\ chatbots = bots
  /\ credentials = creds
  /\ contacts = <<>>
  /\ conversations = <<>>
  /\ messages = <<>>
  /\ botInteractions = <<>>
  /\ webhookEvents = <<>>
  /\ gateway = <<>>
  /\ clock = 0
  /\ wsConnections = << >>
  /\ readyState = << >>
  /\ outbox = << >>
  /\ hs = [h \in Handlers |-> IdleH]
  /\ nreq = 0
  /\ ingested = <<>>

\* processIncomingMessage, from its first await to its return to the route.
PimStep(h) ==
  \/ WhGetWhatsappAccountsByUser(h)
  \/ PimGetWhatsappAccount(h)
  \/ PimGetContactByPhone(h)
  \/ PimCreateContact(h)
  \/ PimUpdateContact(h)
  \/ PimGetConversationByContact(h)
  \/ PimCreateConversation(h)
  \/ PimUpdateConversation(h)
  \/ PimCreateMessage(h)
  \/ WhGetChatbotsByUser(h)

\* processOutgoingMessage
OutStep(h) ==
  \/ OutGetContact(h)
  \/ OutSendTextMessage(h)
  \/ OutCreateMessage(h)
  \/ OutGetConversation(h)
  \/ OutUpdateConversation(h)

\* processBotResponse around it
BotStep(h) ==
  \/ BotGetChatbot(h)
  \/ BotUpdateMessage(h)
  \/ BotCreateBotInteraction(h)

AllIdle == \A h \in Handlers : hs[h].pc = "idle"

\* A request goes to the first free handler.
Free(h) == hs[h].pc = "idle" /\ \A g \in Handlers : hs[g].pc = "idle" => h <= g

(***************************************************************************)
(* Spec: webhook deliveries of one text message each, served concurrently, *)
(* for an owner without chatbot.                                           *)
(***************************************************************************)

InboundTexts == {TextMessage(p, i, "precio") : p \in Phones, i \in MessageIds}

Init == InitWith(<<>>, <<>>, TRUE)

Next ==
  \E h \in Handlers :
    \/ \E m \in InboundTexts :
         nreq < MaxRequests /\ Free(h) /\ StartWebhook(h, "pn1", <<m>>)
    \/ PimStep(h)

Spec == Init /\ [][Next]_vars

(***************************************************************************)
(* SpecSeq: one request at a time -- webhook deliveries of one or two      *)
(* messages, POST /api/messages and send_message frames -- with and        *)
(* without chatbots, with and without gateway credentials.                 *)
(***************************************************************************)

Precio == TextMessage("5551234", "wamid.A", "precio")
Queja == TextMessage("5550000", "wamid.B", "Hola, tengo una QUEJA")
Imagen == MediaMessage("5551234", "wamid.B", "image", TRUE)
Audio == MediaMessage("5550000", "wamid.A", "audio", FALSE)

\* <<phone_number_id, messages>>
Payloads ==
  {<<"pn1", <<m>> >> : m \in {Precio, Queja, Imagen, Audio}}
    \cup {<<"pn1", <<m, n>> >> : m, n \in {Precio, Imagen}}
    \cup {<<"pn2", <<Precio>> >>, <<"pn9", <<Precio>> >>}

\* <<kind, userId, conversationId, contactId, content, type>>
Sends ==
  {<<k, "u1", cv, ct, "gracias", "text">> :
      k \in {"http", "ws"}, cv \in {1, 2}, ct \in {1, 2}}
    \cup {<<"http", "u1", 1, 1, "", "text">>}

InitSeq ==
  \E cfg \in {<< <<>>, TRUE >>} \cup {<<b, c>> : b \in ChatbotConfigs \ {<<>>}, c \in BOOLEAN} :
    InitWith(<<>>, cfg[1], cfg[2])

NextSeq ==
  \/ /\ AllIdle
     /\ nreq < MaxSeqRequests
     /\ \/ \E p \in Payloads : StartWebhook(1, p[1], p[2])
        \/ \E s \in Sends : StartSend(1, s[1], s[2], s[3], s[4], s[5], s[6])
  \/ PimStep(1)
  \/ PimGetMediaUrl(1)
  \/ BotStep(1)
  \/ OutStep(1)

SpecSeq == InitSeq /\ [][NextSeq]_vars

(***************************************************************************)
(* SpecFault: webhook deliveries of one text message, one at a time, in    *)
(* which the database may fail at createConversation or at createMessage.  *)
(***************************************************************************)

NextFault ==
  \/ /\ AllIdle
     /\ nreq < MaxSeqRequests
     /\ \E m \in InboundTexts : StartWebhook(1, "pn1", <<m>>)
  \/ PimStep(1)
  \/ PimCreateConversationFails(1)
  \/ PimCreateMessageFails(1)

SpecFault == Init /\ [][NextFault]_vars

(***************************************************************************)
(* SpecVerify: GET /api/webhook with every combination of the three query  *)
(* parameters, present, empty or absent.                                   *)
(***************************************************************************)

Modes == {"subscribe", "Subscribe", "unsubscribe", "", NULL}
Tokens == {VERIFY_TOKEN, "mi_token_de_verificacion ", "otro", "", NULL}
Challenges == {"1158201444", "0", "null", "", NULL}

NextVerify ==
  \E m \in Modes, t \in Tokens, c \in Challenges : GetWebhook(1, m, t, c)

SpecVerify == Init /\ [][NextVerify]_vars

(***************************************************************************)
(* SpecChat: generateResponse on texts of up to two phrases, for every     *)
(* template and for a template the table does not have.                    *)
(***************************************************************************)

Phrases ==
  {"hola", "HOLA", "Buenas Tardes", "precio", "Costo", "info", "detalles",
   "soporte", "pedido", "cita", "gracias"}

ChatTexts == {""} \cup Phrases \cup {a \o " " \o b : a, b \in Phrases}

TemplateNames == {"corporate", "ecommerce", "healthcare", "retail"}

NextChat ==
  \E t \in TemplateNames, x \in ChatTexts : CallGenerateResponse(1, t, x)

SpecChat == Init /\ [][NextChat]_vars

(***************************************************************************)
(* SpecAuth: logins by e-mail and password, two at a time, against a users *)
(* table with a password user, a user without password (signed up through *)
(* Firebase), an inactive user and a user whose password is empty.         *)
(***************************************************************************)

MaxLogins == 2

User(id, email, password, isActive) ==
  [id |-> id, email |-> email, password |-> password, role |-> "user",
   isActive |-> isActive, lastLogin |-> 0, firebaseUid |-> NULL,
   ceoToken |-> NULL]

\* users.email is unique.
UserRows ==
  << User("u1", "ana@example.com", hashPassword("secreto1"), TRUE),
     User("u2", "luis@example.com", NULL, TRUE),
     User("u3", "eva@example.com", hashPassword("secreto2"), FALSE),
     User("u4", "noe@example.com", "", TRUE) >>

Emails ==
  {"ana@example.com", "luis@example.com", "eva@example.com", "noe@example.com",
   "nadie@example.com", ""}
Passwords == {"secreto1", "secreto2", "$2b$12$secreto1", "", NULL}

InitAuth == InitWith(UserRows, <<>>, TRUE)

NextAuth ==
  \E h \in Handlers :
    \/ \E e \in Emails, p \in Passwords :
         nreq < MaxLogins /\ Free(h) /\ StartLogin(h, e, p)
    \/ LoginStep(h)

SpecAuth == InitAuth /\ [][NextAuth]_vars

(***************************************************************************)
(* SpecGate: requests to a route behind authenticateToken and              *)
(* requireRole(["ceo", "admin"]), two at a time, without token, with       *)
(* session tokens of users of every role, active and inactive, of a user   *)
(* that is not stored, with an expired token and with a token signed with  *)
(* another key.                                                            *)
(***************************************************************************)

MaxGuarded == 2

WithRole(user, role) == [user EXCEPT !.role = role]

GateUserRows ==
  UserRows \o
  << WithRole(User("u5", "jefa@example.com", NULL, TRUE), "ceo"),
     WithRole(User("u6", "admin@example.com", NULL, TRUE), "admin"),
     WithRole(User("u7", "exjefe@example.com", NULL, FALSE), "ceo") >>

SessionToken(userId, key, exp) == [userId |-> userId, key |-> key, exp |-> exp]

GateTokens ==
  {NoToken}
    \cup {SessionToken(id, JWT_SECRET, TokenLifetime) :
            id \in {"u1", "u3", "u5", "u6", "u7", "u9"}}
    \cup {SessionToken("u5", "otra-clave", TokenLifetime),
          SessionToken("u5", JWT_SECRET, 0)}

InitGate == InitWith(GateUserRows, <<>>, TRUE)

NextGate ==
  \E h \in Handlers :
    \/ \E t \in GateTokens : nreq < MaxGuarded /\ Free(h) /\ StartGuarded(h, t)
    \/ AuthGetUser(h)

SpecGate == InitGate /\ [][NextGate]_vars

(***************************************************************************)
(* SpecLogin: the three login flows, two requests at a time, against users *)
(* of every role, one of them known to Firebase.                           *)
(***************************************************************************)

WithFirebaseUid(user, firebaseUid) == [user EXCEPT !.firebaseUid = firebaseUid]

LoginUserRows == [GateUserRows EXCEPT ![2] = WithFirebaseUid(@, "fb-luis")]

\* <<email, password>>, <<firebaseUid, email>>, <<email, token>>
EmailLogins == {<<"ana@example.com", "secreto1">>, <<"ana@example.com", "otra">>}
FirebaseLogins ==
  {<<"fb-luis", "luis@example.com">>, <<"fb-nueva", "nueva@example.com">>,
   <<"", "nueva@example.com">>}
CeoLogins ==
  {<<e, t>> : e \in {"ana@example.com", "jefa@example.com", "nueva@example.com", ""},
              t \in {CEO_MASTER_TOKEN, "ceo-master-token", ""}}

InitLogin == InitWith(LoginUserRows, <<>>, TRUE)

NextLogin ==
  \E h \in Handlers :
    \/ /\ nreq < MaxLogins
       /\ Free(h)
       /\ \/ \E x \in EmailLogins : StartLogin(h, x[1], x[2])
          \/ \E x \in FirebaseLogins : StartFirebase(h, x[1], x[2])
          \/ \E x \in CeoLogins : StartCeoLogin(h, x[1], x[2])
    \/ LoginStep(h)
    \/ FirebaseStep(h)
    \/ CeoStep(h)

SpecLogin == InitLogin /\ [][NextLogin]_vars

(***************************************************************************)
(* SpecWs: two real-time connections that authenticate, under one or       *)
(* several user ids, and close, while webhook deliveries and send_message  *)
(* frames are served one at a time and broadcast their messages.           *)
(***************************************************************************)

MaxWsEvents == 4

Connections == {"c1", "c2"}

WsTokens ==
  {SessionToken(SystemUser, JWT_SECRET, TokenLifetime),
   SessionToken("u1", JWT_SECRET, TokenLifetime),
   SessionToken(SystemUser, "otra-clave", TokenLifetime)}

NextWs ==
  \/ \E c \in Connections : WsConnect(c)
  \/ /\ nreq < MaxWsEvents
     /\ \/ \E c \in Connections, t \in WsTokens : WsAuth(c, t)
        \/ \E c \in Connections : WsClosing(c)
        \/ \E c \in Connections : WsClose(c)
        \/ AllIdle /\ StartWebhook(1, "pn1", <<Precio>>)
        \/ AllIdle /\ StartSend(1, "ws", "u1", 1, 1, "gracias", "text")
  \/ PimStep(1)
  \/ OutStep(1)

SpecWs == Init /\ [][NextWs]_vars

(***************************************************************************)
(* SpecMedia: webhook deliveries, one at a time, of messages of every      *)
(* media type, with and without a media id, and of a type the switch has   *)
(* no case for; the media URL resolves or does not.                        *)
(***************************************************************************)

MediaMessages ==
  {MediaMessage("5551234", "wamid.A", t, id) : t \in MediaTypes, id \in BOOLEAN}
    \cup {MediaMessage("5551234", "wamid.A", "location", FALSE)}

NextMedia ==
  \/ /\ AllIdle
     /\ nreq < MaxSeqRequests
     /\ \E m \in MediaMessages : StartWebhook(1, "pn1", <<m>>)
  \/ PimStep(1)
  \/ PimGetMediaUrl(1)

SpecMedia == Init /\ [][NextMedia]_vars

(***************************************************************************)
(* SpecBot: webhook deliveries, one at a time, to an owner with several    *)
(* chatbots of several templates, active or not, which may be switched on  *)
(* or off at any moment.                                                   *)
(***************************************************************************)

BotConfigs ==
  {<< Bot(SystemUser, "corporate", FALSE), Bot(SystemUser, t, TRUE) >> :
      t \in {"ecommerce", "healthcare", "retail"}}
    \cup {<< Bot(SystemUser, "corporate", TRUE), Bot(SystemUser, "ecommerce", TRUE) >>,
          << Bot(SystemUser, "corporate", FALSE) >>}

Ubicacion == MediaMessage("5551234", "wamid.A", "location", FALSE)

BotPayloads ==
  {<<m>> : m \in {Precio, Queja, Imagen, Ubicacion}} \cup {<<Precio, Imagen>>}

InitBot == \E bots \in BotConfigs : InitWith(<<>>, bots, TRUE)

NextBot ==
  \/ /\ nreq < MaxSeqRequests
     /\ \/ AllIdle /\ \E p \in BotPayloads : StartWebhook(1, "pn1", p)
        \/ \E cb \in DOMAIN chatbots : ChatbotSwitched(cb)
  \/ PimStep(1)
  \/ PimGetMediaUrl(1)
  \/ BotStep(1)
  \/ OutStep(1)

SpecBot == InitBot /\ [][NextBot]_vars

(***************************************************************************)
(* SpecRt: two real-time connections that send auth and send_message       *)
(* frames, beside webhook deliveries and requests to a guarded route, with *)
(* a users table that has active and deactivated users.                    *)
(***************************************************************************)

RtTokens ==
  {NoToken,
   SessionToken("u5", JWT_SECRET, TokenLifetime),
   SessionToken("u7", JWT_SECRET, TokenLifetime),
   SessionToken("u9", JWT_SECRET, TokenLifetime),
   SessionToken("u5", "otra-clave", TokenLifetime)}

RtUserIds == {"u5", "u7"}

InitRt == InitWith(GateUserRows, <<>>, TRUE)

NextRt ==
  \/ \E c \in Connections : WsConnect(c)
  \/ /\ nreq < MaxWsEvents
     /\ \/ \E c \in Connections, t \in RtTokens : WsAuth(c, t)
        \/ AllIdle /\ StartWebhook(1, "pn1", <<Precio>>)
        \/ \E c \in Connections, u \in RtUserIds :
             AllIdle /\ WsSendMessage(c, 1, u, 1, 1, "gracias")
        \/ \E t \in RtTokens : AllIdle /\ StartGuarded(1, t)
  \/ PimStep(1)
  \/ OutStep(1)
  \/ AuthGetUser(1)

SpecRt == InitRt /\ [][NextRt]_vars

(***************************************************************************)
(* SpecLoop: webhook deliveries of several messages, one request at a      *)
(* time, to phone number ids with and without an account of "system", with *)
(* or without a chatbot whose replies the provider may refuse, while a     *)
(* connection authenticates and receives the broadcasts.                  *)
(***************************************************************************)

LoopPayloads ==
  {<<"pn1", <<Precio, Queja, Imagen>> >>,
   <<"pn1", <<Imagen, Precio>> >>,
   <<"pn2", <<Precio, Imagen>> >>,
   <<"pn9", <<Precio>> >>}

InitLoop ==
  \E bots \in {<<>>, <<Bot(SystemUser, "corporate", TRUE)>>} : InitWith(<<>>, bots, TRUE)

NextLoop ==
  \/ WsConnect("c1")
  \/ /\ nreq < MaxSeqRequests
     /\ \/ \E t \in WsTokens : WsAuth("c1", t)
        \/ AllIdle /\ \E p \in LoopPayloads : StartWebhook(1, p[1], p[2])
  \/ PimStep(1)
  \/ PimGetMediaUrl(1)
  \/ BotStep(1)
  \/ OutStep(1)

SpecLoop == InitLoop /\ [][NextLoop]_vars

(***************************************************************************)
(* SpecOut: a webhook delivery from two phones, which gives two contacts   *)
(* with a conversation each, and messages sent through POST /api/messages  *)
(* and send_message frames that name any of these conversations and        *)
(* contacts.                                                               *)
(***************************************************************************)

OutSends ==
  {<<k, "u1", cv, ct, "gracias", "text">> :
      k \in {"http", "ws"}, cv \in {1, 2}, ct \in {1, 2}}

NextOut ==
  \/ /\ AllIdle
     /\ nreq < MaxSeqRequests
     /\ \/ StartWebhook(1, "pn1", <<Precio, Queja>>)
        \/ \E s \in OutSends : StartSend(1, s[1], s[2], s[3], s[4], s[5], s[6])
  \/ PimStep(1)
  \/ OutStep(1)

SpecOut == Init /\ [][NextOut]_vars

(***************************************************************************)
(* Properties                                                              *)
(***************************************************************************)

InboundRows == {i \in DOMAIN messages : messages[i].direction = "inbound"}
OutboundRows == {i \in DOMAIN messages : messages[i].direction = "outbound"}

\* The calls of processIncomingMessage for a message from phone p.
IngestedFrom(p) == {k \in DOMAIN ingested : ingested[k].message.from = p}

\* The contacts stored for (phone, owner) and the conversations of a contact.
ContactsOf(phone, userId) ==
  {c \in DOMAIN contacts : contacts[c].phone = phone /\ contacts[c].userId = userId}

ConversationsOf(contactId) ==
  {c \in DOMAIN conversations : conversations[c].contactId = contactId}

\* C1: when inbound messages from one phone number are processed one after
\* the other, starting without a contact for it, then after two of them
\* exactly one contact for (phone, owner) exists, and exactly one
\* conversation for that contact.
C1_SequentialOneContactOneConversation ==
  \A p \in Phones :
    (AllIdle /\ Cardinality(IngestedFrom(p)) >= 2) =>
      /\ Cardinality(ContactsOf(p, SystemUser)) = 1
      /\ \A c \in ContactsOf(p, SystemUser) :
           Cardinality(ConversationsOf(c)) = 1

C1_Witness ==
  /\ AllIdle
  /\ Cardinality(IngestedFrom("5551234")) = 2
  /\ Cardinality(ContactsOf("5551234", SystemUser)) = 1

\* C2: interleaved executions of processIncomingMessage for one phone number
\* produce duplicate rows (the witness); a row is only ever created by an
\* execution whose lookup found none, so the contacts of one (phone, owner)
\* and the conversations of one contact never outnumber the executions that
\* can overlap.
C2_DuplicatesBoundedByOverlap ==
  /\ \A p \in Phones :
       Cardinality(ContactsOf(p, SystemUser)) <= Cardinality(Handlers)
  /\ \A c \in DOMAIN contacts :
       Cardinality(ConversationsOf(c)) <= Cardinality(Handlers)
  /\ \A h \in Handlers :
       /\ hs[h].pc = "pim_createContact" => hs[h].contact = NoRow
       /\ hs[h].pc = "pim_createConversation" => hs[h].conv = NoRow

C2_Witness ==
  \E c, d \in DOMAIN contacts :
    /\ c # d
    /\ contacts[c].phone = contacts[d].phone
    /\ contacts[c].userId = contacts[d].userId
    /\ ConversationsOf(c) # {}
    /\ ConversationsOf(d) # {}

\* C3 (as claimed): once the inbound messages have been fully processed, in
\* sequence or interleaved, every conversation's unreadCount equals the
\* number of inbound messages processed for it.
C3_UnreadCountsEveryInbound ==
  AllIdle =>
    \A c \in DOMAIN conversations :
      conversations[c].unreadCount =
        Cardinality({i \in InboundRows : messages[i].conversationId = c})

\* C4: processOutgoingMessage stores an outbound message if and only if the
\* gateway send reported success.  Every stored outbound message belongs to
\* one successful POST of its own (its provider message id, its text, the
\* contact's phone), has status "sent", and every successful POST has its
\* message stored by the next step of its handler; a call that ends at the
\* contact lookup or at the send changes neither messages nor conversations.
SuccessfulPosts == {k \in DOMAIN gateway : gateway[k].success}

C4_StoredIffSent ==
  /\ Cardinality(OutboundRows) + Cardinality({h \in Handlers : hs[h].pc = "out_createMessage"})
       = Cardinality(SuccessfulPosts)
  /\ \A i \in OutboundRows :
       /\ messages[i].status = "sent"
       /\ \E k \in SuccessfulPosts :
            /\ messages[i].whatsappMessageId = ProviderMessageId(k)
            /\ messages[i].content = gateway[k].text
            /\ messages[i].contactId \in DOMAIN contacts
            /\ contacts[messages[i].contactId].phone = gateway[k].to
       /\ \A j \in OutboundRows :
            i # j => messages[i].whatsappMessageId # messages[j].whatsappMessageId

C4_FailureStoresNothing ==
  \A h \in Handlers :
    (hs[h].pc \in {"out_getContact", "out_sendTextMessage"} /\ hs'[h].pc = "idle")
      => (messages' = messages /\ conversations' = conversations)

C4_OutgoingPersistedIffSendSucceeded ==
  [](C4_StoredIffSent) /\ [][C4_FailureStoresNothing]_vars

C4_Witness ==
  /\ AllIdle
  /\ \E k \in DOMAIN gateway : ~gateway[k].success
  /\ \E k \in DOMAIN gateway : gateway[k].success
  /\ Cardinality(OutboundRows) = 1
  /\ hs[1].status = 500

\* C6 (as claimed): one text message "precio" from 5551234, delivered to
\* POST /api/webhook for an account whose owner has an active "corporate"
\* chatbot, with the gateway send succeeding, leaves exactly one inbound
\* message, exactly one outbound bot message containing the pricing menu, and
\* exactly one bot interaction, with wasEscalated = false.
HasActiveCorporateBot(userId) ==
  \E b \in DOMAIN chatbots :
    chatbots[b].userId = userId /\ chatbots[b].isActive /\ chatbots[b].template = "corporate"

PrecioDelivered(owners) ==
  /\ AllIdle
  /\ nreq = 1
  /\ hs[1].kind = "webhook"
  /\ hs[1].msgs = <<Precio>>
  /\ \E a \in DOMAIN whatsappAccounts :
       /\ whatsappAccounts[a].phoneNumberId = hs[1].meta
       /\ whatsappAccounts[a].userId \in owners
       /\ HasActiveCorporateBot(whatsappAccounts[a].userId)
  /\ credentials
  /\ \A k \in DOMAIN gateway : gateway[k].success

PrecioAnswered ==
  /\ Cardinality(InboundRows) = 1
  /\ Cardinality({i \in OutboundRows :
                    messages[i].isFromBot /\ Includes(messages[i].content, PricingResponse)}) = 1
  /\ Cardinality(OutboundRows) = 1
  /\ Len(botInteractions) = 1
  /\ \A b \in DOMAIN botInteractions : ~botInteractions[b].wasEscalated

C6_PrecioScenario ==
  PrecioDelivered({whatsappAccounts[a].userId : a \in DOMAIN whatsappAccounts}) => PrecioAnswered

\* (the same for the accounts of the owner the route looks up)
C6_PrecioScenarioSystemOwner == PrecioDelivered({SystemUser}) => PrecioAnswered

\* C9: no step of processOutgoingMessage, whoever called it and however it
\* ends, changes a conversation in anything but lastMessageAt, nor adds or
\* removes a conversation.
SameButLastMessageAt(c, d) ==
  [c EXCEPT !.lastMessageAt = 0] = [d EXCEPT !.lastMessageAt = 0]

OutPcs ==
  {"out_getContact", "out_sendTextMessage", "out_createMessage",
   "out_getConversation", "out_updateConversation"}

C9_OutgoingStep ==
  (\E h \in Handlers : hs[h].pc \in OutPcs) =>
     /\ DOMAIN conversations' = DOMAIN conversations
     /\ \A c \in DOMAIN conversations :
          SameButLastMessageAt(conversations'[c], conversations[c])

C9_OutgoingLeavesUnreadCount == [][C9_OutgoingStep]_vars

\* Replies from the bot, from POST /api/messages or from a send_message frame
\* have touched a conversation that still counts unread messages.
C9_Witness ==
  \E c \in DOMAIN conversations :
    /\ conversations[c].lastMessageAt > 0
    /\ conversations[c].unreadCount = 2
    /\ \E i \in OutboundRows : messages[i].conversationId = c /\ messages[i].isFromBot
    /\ hs[1].kind \in {"http", "ws"} /\ hs[1].pc = "idle"
    /\ \E i \in OutboundRows : messages[i].conversationId = c /\ ~messages[i].isFromBot

\* C10: nothing is deduplicated by provider message id.  Once processing is
\* over, the stored inbound messages with a given sender and provider id are
\* as many as the times that raw message was processed, and the unreadCount
\* of the sender's conversation is the number of messages processed from it.
SameRaw(p, i) ==
  {k \in DOMAIN ingested : ingested[k].message.from = p /\ ingested[k].message.id = i}

StoredRaw(p, i) ==
  {m \in InboundRows :
     messages[m].whatsappMessageId = i /\ contacts[messages[m].contactId].phone = p}

C10_NoDeduplication ==
  AllIdle =>
    \A p \in Phones :
      /\ \A i \in MessageIds : Cardinality(StoredRaw(p, i)) = Cardinality(SameRaw(p, i))
      /\ \A c \in getContactByPhone(p, SystemUser) :
           \A v \in getConversationByContact(c) :
             conversations[v].unreadCount = Cardinality(IngestedFrom(p))

C10_Witness ==
  /\ AllIdle
  /\ \E k, l \in DOMAIN ingested : k # l /\ ingested[k] = ingested[l]
  /\ Cardinality(StoredRaw("5551234", "wamid.A")) = 2
  /\ \E v \in DOMAIN conversations : conversations[v].unreadCount = 2

(***************************************************************************)
(* GET /api/webhook                                                        *)
(***************************************************************************)

Handshake == hs[1].kind = "GET /api/webhook"

\* C5: for every mode, verify token and challenge of a GET /api/webhook
\* request, the answer is 200 with the challenge as its body if and only if
\* the mode is "subscribe" and the token is the configured secret, and it is
\* 403 in every other case.
C5_HandshakeIffModeAndToken ==
  Handshake =>
    LET q == hs[1].query
        accepted == q.mode = "subscribe" /\ q.token = VERIFY_TOKEN
    IN  /\ accepted <=> (hs[1].status = 200 /\ hs[1].body = q.challenge)
        /\ ~accepted <=> hs[1].status = 403

\* What the route does do: it accepts when, besides, the challenge is a
\* non-empty text.
C5_HandshakeNeedsChallenge ==
  Handshake =>
    LET q == hs[1].query
        accepted == q.mode = "subscribe" /\ q.token = VERIFY_TOKEN
                      /\ Truthy(q.challenge)
    IN  /\ accepted <=> (hs[1].status = 200 /\ hs[1].body = q.challenge)
        /\ ~accepted <=> hs[1].status = 403

(***************************************************************************)
(* generateResponse                                                        *)
(***************************************************************************)

Mentions(text, keywords) == \E k \in keywords : Includes(ToLowerCase(text), k)

CorporateGreetings == {"hola", "buenos días", "buenas tardes", "buenas noches"}
CorporatePricing == {"precio", "costo", "tarifa", "cuánto cuesta"}
CorporateInfo == {"información", "info", "detalles", "más info"}

CorporateCall ==
  hs[1].kind = "generateResponse" /\ hs[1].query.template = "corporate"

\* C7: for a chatbot of template "corporate", a text that contains a greeting
\* keyword gets the greeting response whatever else it contains; without a
\* greeting keyword a pricing keyword gets the pricing response; without
\* either an info keyword gets the info response; any other text gets the
\* generic default response.
C7_CorporateGreetingFirst ==
  CorporateCall =>
    LET text == hs[1].query.text IN
    hs[1].body =
      IF Mentions(text, CorporateGreetings) THEN GreetingResponse("Acme")
      ELSE IF Mentions(text, CorporatePricing) THEN PricingResponse
      ELSE IF Mentions(text, CorporateInfo) THEN InfoResponse
      ELSE DefaultResponse

\* A text with a pricing keyword and, after it, a greeting in capitals has
\* been answered with the greeting.
C7_Witness ==
  /\ CorporateCall
  /\ hs[1].query.text = "precio HOLA"
  /\ hs[1].body = GreetingResponse("Acme")

(***************************************************************************)
(* loginWithEmail                                                          *)
(***************************************************************************)

LoginDone(h) == hs[h].kind = "POST /api/auth/login" /\ hs[h].pc = "idle"

\* The stored users the credentials of a login request are valid for.
ValidFor(q) ==
  {i \in DOMAIN users :
     /\ users[i].email = q.email
     /\ Truthy(users[i].password)
     /\ verifyPassword(q.password, users[i].password)}


C8_LoginAnswers ==
  \A h \in Handlers :
    LoginDone(h) /\ Truthy(hs[h].query.email) /\ Truthy(hs[h].query.password) =>
      IF ValidFor(hs[h].query) # {}
        THEN /\ hs[h].status = 200
             /\ \E i \in ValidFor(hs[h].query) :
                  verifyToken(hs[h].token) = [userId |-> users[i].id]
        ELSE /\ hs[h].status = 401
             /\ hs[h].token = IdleH.token

C8_RejectionChangesNothing ==
  \A h \in Handlers :
    hs[h].kind = "POST /api/auth/login" /\ hs'[h].pc = "idle"
      /\ hs[h].pc # "idle" /\ hs'[h].status # 200
    => /\ hs'[h].status = 401
       /\ <<LoginFrame, users, clock>>' = <<LoginFrame, users, clock>>

\* C8: a login whose e-mail and password match a stored user is answered with
\* a token that verifyToken maps to that user's id; a login with an unknown
\* e-mail, for a user without password or with a wrong password is answered
\* with the rejection (401, never the 500 of an exception), carries no token
\* and leaves every table as it was.
C8_LoginWithEmail == [](C8_LoginAnswers) /\ [][C8_RejectionChangesNothing]_vars

\* One login of u1 with her password has been accepted and one with the
\* password of another user has been rejected.
C8_Witness ==
  /\ LoginDone(1) /\ LoginDone(2)
  /\ hs[1].status = 200 /\ verifyToken(hs[1].token) = [userId |-> "u1"]
  /\ hs[2].status = 401 /\ hs[2].query.email = "ana@example.com"
  /\ hs[2].query.password = "secreto2"

(***************************************************************************)
(* Message status                                                          *)
(***************************************************************************)

\* C11: every stored message is inbound with status "delivered" or outbound
\* with status "sent"; no other status is ever recorded, whatever sends
\* succeeded or failed before.
C11_StatusByDirection ==
  \A i \in DOMAIN messages :
    \/ messages[i].direction = "inbound" /\ messages[i].status = "delivered"
    \/ messages[i].direction = "outbound" /\ messages[i].status = "sent"

\* A send has failed at the provider, and messages of both directions are
\* stored.
C11_Witness ==
  /\ \E k \in DOMAIN gateway : ~gateway[k].success
  /\ InboundRows # {}
  /\ OutboundRows # {}

(***************************************************************************)
(* The role gate                                                           *)
(***************************************************************************)

GuardedDone(h) == hs[h].kind = "GET /api/admin/users" /\ hs[h].pc = "idle"

Verifies(token) == token # NoToken /\ verifyToken(token) # Nobody

\* The stored active users a token stands for.
ActiveHolders(token) ==
  {i \in DOMAIN users : users[i].id = token.userId /\ users[i].isActive}

\* C12 (as claimed): behind authenticateToken and requireRole(roles), a
\* request without token or with a token that does not verify is answered
\* 401; a request of an authenticated user whose role is not in roles is
\* answered 403; the handler (200) is reached only for an existing active
\* user whose role is in roles.
C12_Gate401Then403 ==
  \A h \in Handlers :
    GuardedDone(h) =>
      LET t == hs[h].query.token IN
      /\ ~Verifies(t) => hs[h].status = 401
      /\ Verifies(t) /\ (\E i \in ActiveHolders(t) : users[i].role \notin AdminRoles)
           => hs[h].status = 403
      /\ hs[h].status = 200 =>
           Verifies(t) /\ \E i \in ActiveHolders(t) : users[i].role \in AdminRoles

\* What the two middlewares do: 401 only without token; 403 for a token that
\* does not verify, for a user that is not stored or not active, and for a
\* role outside roles; 200 otherwise.
C12_GateAsCoded ==
  \A h \in Handlers :
    GuardedDone(h) =>
      LET t == hs[h].query.token IN
      hs[h].status =
        IF t = NoToken THEN 401
        ELSE IF Verifies(t) /\ \E i \in ActiveHolders(t) : users[i].role \in AdminRoles
          THEN 200
          ELSE 403

(***************************************************************************)
(* The login flows                                                         *)
(***************************************************************************)

LoginKinds ==
  {"POST /api/auth/login", "POST /api/auth/firebase", "POST /api/auth/ceo-login"}

\* C13 (as claimed): whenever a login of any of the three flows has been
\* answered with a session, the stored user the session is for has a
\* lastLogin timestamp written by a login.
C13_EveryLoginStampsLastLogin ==
  \A h \in Handlers :
    hs[h].pc = "idle" /\ hs[h].kind \in LoginKinds /\ hs[h].status = 200 =>
      \A i \in DOMAIN users :
        users[i].id = hs[h].token.userId => users[i].lastLogin # 0

\* What holds: a login of a user that was stored from the start has written
\* lastLogin.
C13_ExistingUsersStamped ==
  \A h \in Handlers :
    hs[h].pc = "idle" /\ hs[h].kind \in LoginKinds /\ hs[h].status = 200 =>
      \A i \in DOMAIN users :
        users[i].id = hs[h].token.userId =>
          (i \in DOMAIN LoginUserRows => users[i].lastLogin # 0)

CeoDone(h) ==
  /\ hs[h].kind = "POST /api/auth/ceo-login" /\ hs[h].pc = "idle"
  /\ Truthy(hs[h].query.email) /\ Truthy(hs[h].query.token)

C17_CeoAnswers ==
  \A h \in Handlers :
    CeoDone(h) =>
      IF hs[h].query.token # CEO_MASTER_TOKEN
        THEN hs[h].status = 401 /\ hs[h].token = NoToken
        ELSE /\ hs[h].status = 200
             /\ \E i \in DOMAIN users :
                  /\ users[i].email = hs[h].query.email
                  /\ users[i].role = "ceo"
                  /\ verifyToken(hs[h].token) = [userId |-> users[i].id]

\* The rejection is given at the entry of the request, before any storage
\* call, and changes nothing.
C17_RejectedAtEntry ==
  \A h \in Handlers :
    /\ hs'[h] # hs[h]
    /\ hs'[h].kind = "POST /api/auth/ceo-login"
    /\ hs'[h].pc = "idle" /\ hs'[h].status # 200
    => /\ hs[h].pc = "idle"
       /\ <<LoginFrame, users, clock>>' = <<LoginFrame, users, clock>>

\* C17: loginAsCEO with a token other than the master token is rejected
\* before any storage read or write; with the master token, afterwards a
\* user with that e-mail and role "ceo" is stored (created, or promoted) and
\* the session token verifies to that user's id.
C17_LoginAsCEO == [](C17_CeoAnswers) /\ [][C17_RejectedAtEntry]_vars

\* An ordinary user has been promoted with the master token, and a login
\* with another token has been rejected.
C17_Witness ==
  /\ users[1].role = "ceo" /\ users[1].lastLogin # 0
  /\ \E h \in Handlers :
       CeoDone(h) /\ hs[h].status = 200 /\ hs[h].token.userId = "u1"
  /\ \E h \in Handlers :
       CeoDone(h) /\ hs[h].status = 401 /\ hs[h].query.token = "ceo-master-token"

(***************************************************************************)
(* The real-time registry                                                  *)
(***************************************************************************)

\* C14 (as claimed): the registry maps user ids only to connections that
\* have not been closed -- once the close handler of a connection has run,
\* no entry of the registry holds that connection.
C14_NoEntryForClosedConnection ==
  \A k \in MapKeys : readyState[wsConnections[k].ws] # "CLOSED"

\* What holds: the close handler removes an entry of the connection when
\* there is one, so a closed connection is held by fewer entries than the
\* user ids it authenticated under.
C14_NoEntryWhenOneUserId ==
  \A c \in DOMAIN readyState :
    readyState[c] = "CLOSED" =>
      Cardinality({k \in MapKeys : wsConnections[k].ws = c})
        < Cardinality({SystemUser, "u1"})

\* The user a handler's broadcast is for: the account's owner for an inbound
\* message, the sender named by the request for a sent one.
Target(r) ==
  IF r.kind = "webhook" THEN whatsappAccounts[r.account].userId ELSE r.user

\* The steps in which a handler calls broadcastToUser, and its frame.
Broadcasts(h) ==
  \/ hs[h].pc = "pim_createMessage" /\ hs'[h].pc # "pim_createMessage"
  \/ /\ hs[h].kind \in {"http", "ws"}
     /\ hs[h].pc \in {"out_getConversation", "out_updateConversation"}
     /\ hs'[h].pc = "idle"

Registered(userId) ==
  {wsConnections[k].ws : k \in {j \in MapKeys : wsConnections[j].userId = userId}}

C15_BroadcastStep ==
  \A h \in Handlers :
    Broadcasts(h) =>
      /\ <<wsConnections, readyState>>' = <<wsConnections, readyState>>
      /\ \A c \in DOMAIN outbox :
           IF c \in Registered(Target(hs[h])) /\ readyState[c] = "OPEN"
             THEN /\ Len(outbox'[c]) = Len(outbox[c]) + 1
                  /\ SubSeq(outbox'[c], 1, Len(outbox[c])) = outbox[c]
                  /\ outbox'[c][Len(outbox'[c])].type = "new_message"
             ELSE outbox'[c] = outbox[c]

C15_OneConnectionPerUser ==
  \A j, k \in MapKeys :
    wsConnections[j].userId = wsConnections[k].userId => j = k

\* C15: a broadcast to a user reaches at most one connection -- the one the
\* registry holds for the user, and only while it is OPEN; the registry
\* holds one connection per user, the last that authenticated as the user;
\* without such a connection the frame is dropped and nothing changes.
C15_BroadcastToRegisteredOpenConnection ==
  [](C15_OneConnectionPerUser) /\ [][C15_BroadcastStep]_vars

\* Both connections are open and have authenticated as the same user, c1
\* first: the message went to c2 only.
C15_Witness ==
  /\ DOMAIN readyState = Connections
  /\ \A c \in Connections : readyState[c] = "OPEN"
  /\ outbox["c1"] = <<[type |-> "auth_success"]>>
  /\ Len(outbox["c2"]) = 2
  /\ outbox["c2"][1] = [type |-> "auth_success"]
  /\ outbox["c2"][2].type = "new_message"
  /\ Registered(SystemUser) = {"c2"}

(***************************************************************************)
(* Webhook events                                                          *)
(***************************************************************************)

\* C16 (as claimed): each call of POST /api/webhook creates one WebhookEvent
\* record -- once the calls made so far have been answered, the table holds
\* one record per call.
C16_OneEventPerWebhookCall ==
  AllIdle => Len(webhookEvents) = nreq

\* What holds: the webhook route stores no event at all, and so never reads
\* a processed flag either.
C16_NoEventStored == webhookEvents = <<>>

(***************************************************************************)
(* sendMessage / sendTextMessage                                           *)
(***************************************************************************)

C18_SendStep ==
  \A h \in Handlers :
    hs[h].pc = "out_sendTextMessage" /\ hs'[h] # hs[h] =>
      LET posts == Len(gateway') - Len(gateway) IN
      /\ posts \in {0, 1}
      /\ SubSeq(gateway', 1, Len(gateway)) = gateway
      /\ ~credentials => posts = 0
      /\ \/ /\ hs'[h].pc = "out_createMessage"
            /\ posts = 1 /\ gateway'[Len(gateway')].success
         \/ /\ hs'[h].pc = "idle"
            /\ posts = 1 => ~gateway'[Len(gateway')].success

\* C18: a call of sendTextMessage ends with a result, success or failure,
\* never with an exception of its own; it makes at most one POST to the
\* provider, none without credentials, and after a failed POST it makes no
\* other: the caller gets the failure at once.
C18_SingleSendNoRetry == [][C18_SendStep]_vars

\* A send has failed at the provider and its request was answered with the
\* caller's error; a send without credentials would have made no POST.
C18_Witness ==
  /\ hs[1].kind = "http" /\ hs[1].pc = "idle" /\ hs[1].status = 500
  /\ gateway # <<>>
  /\ ~gateway[Len(gateway)].success

(***************************************************************************)
(* Partial failure of processIncomingMessage                               *)
(***************************************************************************)

Fails(h, pc) ==
  hs[h].pc = pc /\ hs'[h].pc = "idle" /\ hs'[h].status = 500

C19_FailureStep ==
  \A h \in Handlers :
    /\ Fails(h, "pim_createConversation") =>
         /\ <<contacts, conversations, messages>>' = <<contacts, conversations, messages>>
         /\ hs[h].contact \in DOMAIN contacts'
         /\ {c \in DOMAIN conversations' :
               conversations'[c].contactId = hs[h].contact} = {}
         /\ {i \in DOMAIN messages' : messages'[i].contactId = hs[h].contact} = {}
    /\ Fails(h, "pim_createMessage") =>
         /\ <<contacts, conversations, messages>>' = <<contacts, conversations, messages>>
         /\ hs[h].conv \in DOMAIN conversations'
         /\ conversations'[hs[h].conv].unreadCount >
              Cardinality({i \in DOMAIN messages' :
                             messages'[i].conversationId = hs[h].conv})

\* C19: processIncomingMessage undoes nothing.  When createConversation
\* fails, the contact of the message stays stored, without conversation and
\* without message; when createMessage fails, the conversation stays as
\* created or with its unreadCount raised, counting a message that no
\* record exists for.
C19_NoRollback == [][C19_FailureStep]_vars

\* Both failures have happened: a contact without conversation, and a
\* conversation of unreadCount 1 without any message.
C19_Witness ==
  /\ AllIdle
  /\ hs[1].status = 500
  /\ messages = <<>>
  /\ \E c \in DOMAIN contacts : ConversationsOf(c) = {}
  /\ \E c \in DOMAIN conversations : conversations[c].unreadCount = 1

(***************************************************************************)
(* The order of a bot reply                                                *)
(***************************************************************************)

BotTagged == {i \in OutboundRows : messages[i].isFromBot}

\* The stored reply of an interaction: outbound, sent, tagged, with the
\* interaction's text, to the interaction's contact.
ReplyOf(b) ==
  {i \in BotTagged :
     /\ messages[i].content = botInteractions[b].response
     /\ messages[i].contactId = botInteractions[b].contactId
     /\ messages[i].status = "sent"}

C20_InteractionHasTaggedReply ==
  /\ \A b \in DOMAIN botInteractions : ReplyOf(b) # {}
  /\ \A cb \in DOMAIN chatbots :
       Cardinality({b \in DOMAIN botInteractions : botInteractions[b].chatbotId = cb})
         <= Cardinality(BotTagged)
  /\ Len(botInteractions) <= Cardinality(BotTagged)

C20_OrderStep ==
  \A h \in Handlers :
    \* the reply is tagged once it is stored, through processOutgoingMessage
    /\ hs'[h].pc = "bot_updateMessage" /\ hs[h].pc # "bot_updateMessage" =>
         /\ hs[h].pc \in {"out_getConversation", "out_updateConversation"}
         /\ hs[h].outMsg \in OutboundRows
         /\ ~messages[hs[h].outMsg].isFromBot
    \* the interaction is written once the reply is tagged
    /\ botInteractions' # botInteractions =>
         /\ Len(botInteractions') = Len(botInteractions) + 1
         /\ \E g \in Handlers :
              /\ hs[g].pc = "bot_createBotInteraction"
              /\ hs[g].outMsg \in BotTagged
    \* a tag is only ever put on a stored outbound message
    /\ \A i \in DOMAIN messages :
         messages'[i].isFromBot /\ ~messages[i].isFromBot => i \in OutboundRows

\* C20: a bot reply is first sent and stored through processOutgoingMessage,
\* then tagged isFromBot, then its BotInteraction is written: every
\* BotInteraction has a stored outbound message tagged isFromBot with its
\* response text, and a chatbot never has more BotInteractions than there
\* are tagged outbound messages.
C20_BotReplyOrder == [](C20_InteractionHasTaggedReply) /\ [][C20_OrderStep]_vars

\* Two messages have been answered by the bot.
C20_Witness ==
  /\ AllIdle
  /\ Len(botInteractions) = 2
  /\ Cardinality(BotTagged) = 2

(***************************************************************************)
(* A bot reply that the provider does not take                             *)
(***************************************************************************)

\* The send awaited by handler h has failed: no POST was made, or the POST
\* made was not accepted.
SendFailed(h) ==
  /\ hs[h].pc = "out_sendTextMessage"
  /\ hs'[h] # hs[h]
  /\ \/ gateway' = gateway
     \/ ~gateway'[Len(gateway')].success

C21_FailedReplyStep ==
  \A h \in Handlers :
    hs[h].kind = "webhook" /\ SendFailed(h) =>
      LET r == hs[h] IN
      \* the route answers 500 and goes on to no other message
      /\ hs'[h].pc = "idle" /\ hs'[h].status = 500
      \* the inbound message, its contact and its conversation stay
      /\ <<contacts, conversations, messages, botInteractions>>'
           = <<contacts, conversations, messages, botInteractions>>
      /\ r.inMsg \in InboundRows
      /\ messages[r.inMsg].contactId = r.contact
      /\ messages[r.inMsg].conversationId = r.conv
      /\ r.contact \in DOMAIN contacts
      /\ conversations[r.conv].contactId = r.contact
      /\ conversations[r.conv].unreadCount >= 1
      \* no reply and no interaction is stored for it
      /\ {i \in OutboundRows : i > r.inMsg} = {}
      /\ {b \in DOMAIN botInteractions :
            botInteractions[b].messageId = r.inMsg} = {}

\* C21: when the provider does not take a bot reply during POST /api/webhook,
\* the route answers 500; the inbound message stays stored with its contact,
\* its conversation and the unread increment, and neither an outbound
\* message nor a BotInteraction is stored for it.
C21_FailedBotReply == [][C21_FailedReplyStep]_vars

\* One webhook delivery whose bot reply the provider refused: answered 500,
\* one inbound message in a conversation of unreadCount 1, nothing else.
C21_Witness ==
  /\ AllIdle
  /\ hs[1].kind = "webhook" /\ hs[1].status = 500
  /\ Len(gateway) = 1 /\ ~gateway[1].success
  /\ Len(messages) = 1 /\ InboundRows = {1}
  /\ Len(contacts) = 1
  /\ Len(conversations) = 1 /\ conversations[1].unreadCount = 1
  /\ botInteractions = <<>>

(***************************************************************************)
(* Escalation to a human agent                                             *)
(***************************************************************************)

\* The lowercased text holds one of the escalation keywords.
HasEscalationKeyword(text) ==
  \E k \in DOMAIN escalationKeywords :
    Includes(ToLowerCase(text), escalationKeywords[k])

\* The stored replies of interaction b: outbound text messages of the bot
\* with the interaction's response, in the contact and the conversation of
\* the message answered.
EscalationReplies(b) ==
  LET in == messages[botInteractions[b].messageId] IN
  {i \in BotTagged :
     /\ i > botInteractions[b].messageId
     /\ messages[i].content = botInteractions[b].response
     /\ messages[i].type = "text"
     /\ messages[i].status = "sent"
     /\ messages[i].contactId = in.contactId
     /\ messages[i].conversationId = in.conversationId}

C22_Interactions ==
  \A b \in DOMAIN botInteractions :
    LET bi == botInteractions[b]
        in == messages[bi.messageId]
        template == generateResponse(chatbots[bi.chatbotId], in.content)
    IN  /\ bi.messageId \in InboundRows
        /\ bi.trigger = in.content
        /\ bi.contactId = in.contactId
        /\ bi.wasEscalated <=> HasEscalationKeyword(in.content)
        /\ bi.wasEscalated => bi.response = template \o EscalationNotice
        /\ ~bi.wasEscalated => bi.response = template
        /\ bi.response = template \o EscalationNotice => bi.wasEscalated
        /\ EscalationReplies(b) # {}
        /\ \E k \in SuccessfulPosts :
             /\ gateway[k].text = bi.response
             /\ gateway[k].to = contacts[in.contactId].phone

\* C22: the BotInteraction of an answered inbound message has wasEscalated
\* exactly when the lowercased text holds an escalation keyword; the reply is
\* the template response followed by the hand-off notice exactly when
\* wasEscalated, and the template response alone otherwise; escalated or not,
\* the reply is sent to the contact of the message and stored in its
\* conversation.
C22_EscalationOnlyAddsNotice == [](C22_Interactions)

\* An escalated reply (the keyword written in upper case) and a reply that
\* was not escalated are both stored.
C22_Witness ==
  /\ AllIdle
  /\ \E b \in DOMAIN botInteractions :
       /\ botInteractions[b].wasEscalated
       /\ botInteractions[b].trigger = "Hola, tengo una QUEJA"
       /\ EscalationReplies(b) # {}
  /\ \E b \in DOMAIN botInteractions : ~botInteractions[b].wasEscalated

(***************************************************************************)
(* Media messages                                                          *)
(***************************************************************************)

\* The content stored for a media message, type by type.
BracketedType(type) ==
  CASE type = "image" -> "[IMAGE]"
    [] type = "audio" -> "[AUDIO]"
    [] type = "video" -> "[VIDEO]"
    [] type = "document" -> "[DOCUMENT]"

C23_MediaStep ==
  \A h \in Handlers :
    LET r == hs[h] IN
    \* resolution ends with a URL or with nothing, never with an exception
    /\ r.pc = "pim_getMediaUrl" /\ hs'[h] # r =>
         /\ Msg(r).type \in MediaTypes /\ Msg(r).mediaId
         /\ hs'[h].pc = "pim_createMessage"
         /\ hs'[h].mediaUrl \in MediaUrls
         /\ messages' = messages
    \* the message stored carries the outcome of the resolution
    /\ r.pc = "pim_createMessage" /\ hs'[h] # r /\ Msg(r).type \in MediaTypes =>
         /\ Len(messages') = Len(messages) + 1
         /\ LET row == messages'[Len(messages')] IN
            /\ row.direction = "inbound"
            /\ row.type = Msg(r).type
            /\ row.content = BracketedType(Msg(r).type)
            /\ row.mediaUrl = r.mediaUrl
            /\ ~Msg(r).mediaId => row.mediaUrl = NULL

C23_OneRowPerMediaMessage ==
  /\ \A h \in Handlers : hs[h].kind = "webhook" => hs[h].status # 500
  /\ AllIdle =>
       /\ Cardinality(InboundRows) = Len(ingested)
       /\ \A k \in DOMAIN ingested :
            ingested[k].message.type \in MediaTypes =>
              /\ k \in InboundRows
              /\ messages[k].content = BracketedType(ingested[k].message.type)
              /\ messages[k].mediaUrl \in MediaUrls
              /\ ~ingested[k].message.mediaId => messages[k].mediaUrl = NULL

\* C23: a media URL that cannot be resolved never aborts ingestion.  For
\* every inbound message of type image, audio, video or document exactly one
\* inbound message is stored, its content the bracketed upper-case type, its
\* media URL the one resolved, and empty when resolution gave none or the
\* message had no media id.
C23_MediaFailureNeverAborts == [](C23_OneRowPerMediaMessage) /\ [][C23_MediaStep]_vars

\* A document whose URL was not resolved and a document whose URL was
\* resolved are both stored.
C23_Witness ==
  /\ AllIdle
  /\ hs[1].status = 200
  /\ Len(ingested) = 2
  /\ \A k \in {1, 2} : ingested[k].message.type = "document" /\ ingested[k].message.mediaId
  /\ messages[1].content = "[DOCUMENT]" /\ messages[1].mediaUrl = NULL
  /\ messages[2].content = "[DOCUMENT]" /\ messages[2].mediaUrl # NULL

(***************************************************************************)
(* The last-message time of a contact                                      *)
(***************************************************************************)

\* C24: when processIncomingMessage handles a message of a contact that
\* already exists, its update of the contact gives the contact's
\* lastMessageAt a new value.
C24_ExistingContactStamped ==
  [][\A h \in Handlers :
       hs[h].pc = "pim_updateContact" /\ hs'[h] # hs[h] =>
         contacts'[hs[h].contact].lastMessageAt
           # contacts[hs[h].contact].lastMessageAt]_vars

\* As coded, no step changes a stored contact: the update names no column.
C24_ContactRowsNeverChange ==
  [][\A c \in DOMAIN contacts : contacts'[c] = contacts[c]]_vars

(***************************************************************************)
(* Which messages the bot answers                                          *)
(***************************************************************************)

\* The active chatbots of the owner of the account handler h works for.
ActiveBotsOfOwner(h) ==
  {i \in DOMAIN chatbots :
     /\ chatbots[i].userId = whatsappAccounts[hs[h].account].userId
     /\ chatbots[i].isActive}

\* Handler h goes on to the next message, or answers, and writes nothing.
MovesOn(h) ==
  /\ hs'[h].pc \in {"idle", "wh_getWhatsappAccountsByUser"}
  /\ hs'[h].pc = "idle" => hs'[h].status = 200
  /\ <<messages, botInteractions, gateway>>' = <<messages, botInteractions, gateway>>

C25_ReplyStep ==
  \A h \in Handlers :
    LET r == hs[h] IN
    \* the route: an active chatbot of the owner, if there is one
    /\ r.pc = "wh_getChatbotsByUser" /\ hs'[h] # r =>
         IF ActiveBotsOfOwner(h) # {}
           THEN hs'[h].pc = "bot_getChatbot" /\ hs'[h].bot \in ActiveBotsOfOwner(h)
           ELSE MovesOn(h)
    \* processBotResponse: the reply is handed to processOutgoingMessage
    \* if the chatbot is still there and active
    /\ r.pc = "bot_getChatbot" /\ hs'[h] # r =>
         IF r.bot \in DOMAIN chatbots /\ chatbots[r.bot].isActive
           THEN /\ hs'[h].pc = "out_getContact"
                /\ hs'[h].oContent # ""
                /\ hs'[h].oContact = r.contact /\ hs'[h].oConv = r.conv
                /\ hs'[h].inMsg = r.inMsg
           ELSE MovesOn(h)
    \* a send is made by a handler that went this way, for its message
    /\ gateway' # gateway =>
         \E g \in Handlers :
           /\ hs[g].pc = "out_sendTextMessage"
           /\ hs[g].bot \in DOMAIN chatbots

C25_AtMostOneReply ==
  /\ Len(gateway) <= Cardinality(InboundRows)
  /\ \A i \in InboundRows :
       Cardinality({b \in DOMAIN botInteractions :
                      botInteractions[b].messageId = i}) <= 1
  /\ \A b \in DOMAIN botInteractions :
       botInteractions[b].chatbotId \in DOMAIN chatbots

\* C25: for each inbound message of POST /api/webhook, if the owner has an
\* active chatbot one reply is attempted, by an active chatbot of the owner,
\* whatever the type and content of the message and the chatbot's template;
\* if the owner has none, or the chatbot is no longer active when
\* processBotResponse reads it, the route goes on and nothing is sent or
\* written.
C25_OneReplyPerMessage == [](C25_AtMostOneReply) /\ [][C25_ReplyStep]_vars

\* A payload of two messages: the first was answered, then the chatbots
\* were switched off and the second was not.
C25_Witness ==
  /\ AllIdle
  /\ hs[1].status = 200
  /\ Len(ingested) = 2 /\ Cardinality(InboundRows) = 2
  /\ Len(gateway) = 1 /\ Len(botInteractions) = 1
  /\ botInteractions[1].messageId = 1
  /\ \A cb \in DOMAIN chatbots : ~chatbots[cb].isActive

\* A chatbot switched off between the route's lookup and the read of
\* processBotResponse.
C25_SwitchedOffInBetween ==
  \E h \in Handlers : hs[h].pc = "bot_getChatbot" /\ ~chatbots[hs[h].bot].isActive

(***************************************************************************)
(* send_message frames                                                     *)
(***************************************************************************)

\* The connections held in the registry, under any user id.
Authenticated == {wsConnections[k].ws : k \in MapKeys}

C26_FrameStep ==
  \A h \in Handlers :
    LET r == hs[h] IN
    \* the frame starts processOutgoingMessage with its own fields
    /\ r.pc = "idle" /\ hs'[h].kind = "ws" /\ hs'[h] # r =>
         LET f == hs'[h].query IN
         /\ hs'[h].pc = "out_getContact"
         /\ hs'[h].oConv = f.conversationId
         /\ hs'[h].oContact = f.contactId
         /\ hs'[h].oContent = f.content
    \* the message stored is the one the frame describes
    /\ r.kind = "ws" /\ r.pc = "out_createMessage" /\ hs'[h] # r =>
         /\ Len(messages') = Len(messages) + 1
         /\ messages'[Len(messages')].conversationId = r.query.conversationId
         /\ messages'[Len(messages')].contactId = r.query.contactId
         /\ messages'[Len(messages')].content = r.query.content
    \* the push goes to the connection registered for the frame's userId
    /\ r.kind = "ws" /\ Broadcasts(h) =>
         \A c \in DOMAIN outbox :
           IF c \in Registered(r.query.userId) /\ readyState[c] = "OPEN"
             THEN outbox'[c] =
                    Append(outbox[c], [type |-> "new_message", message |-> r.outMsg])
             ELSE outbox'[c] = outbox[c]

AuthSuccess == [type |-> "auth_success"]

\* The registry apart from the entry of user id u.
EntriesButOf(registry, u) ==
  {registry[k] : k \in {j \in DOMAIN registry : registry[j].userId # u}}

C27_AuthStep ==
  \A c \in Connections :
    \* an auth frame registers the connection exactly when its token verifies
    /\ \A t \in RtTokens :
         WsAuth(c, t) =>
           IF Verifies(t)
             THEN LET u == verifyToken(t).userId IN
                  /\ {wsConnections'[k].ws :
                        k \in {j \in DOMAIN wsConnections' :
                                 wsConnections'[j].userId = u}} = {c}
                  /\ EntriesButOf(wsConnections', u) = EntriesButOf(wsConnections, u)
                  /\ outbox' = [outbox EXCEPT ![c] = Append(@, AuthSuccess)]
             ELSE <<wsConnections, outbox>>' = <<wsConnections, outbox>>
    \* and nothing else registers a connection or answers auth_success
    /\ \/ \E k \in DOMAIN wsConnections' :
            wsConnections'[k].ws = c /\ wsConnections'[k] \notin
              {wsConnections[j] : j \in DOMAIN wsConnections}
       \/ /\ c \in DOMAIN outbox
          /\ Len(outbox'[c]) > Len(outbox[c])
          /\ outbox'[c][Len(outbox'[c])] = AuthSuccess
       => \E t \in RtTokens : Verifies(t) /\ WsAuth(c, t)

\* authenticateToken answers 403 to a token that verifies but whose user is
\* not stored or not active.
C27_HttpRejectsInactive ==
  \A h \in Handlers :
    GuardedDone(h) /\ Verifies(hs[h].query.token)
      /\ ActiveHolders(hs[h].query.token) = {} => hs[h].status = 403

\* C27: a connection is registered under user id u and is sent auth_success
\* exactly when it sends an auth frame whose token verifies to u; a frame
\* without token or with a token that does not verify changes nothing and
\* is not answered.  Whether user u is stored or active plays no part: the
\* token of a deactivated user registers its connection, which then gets
\* that user's broadcasts, while authenticateToken answers the same token
\* with 403.
C27_RegisteredIffTokenVerifies == [](C27_HttpRejectsInactive) /\ [][C27_AuthStep]_vars

\* User u7 is deactivated.  Connection c1 authenticated with u7's token, was
\* answered auth_success and then got a new_message broadcast for u7; the
\* same token on the guarded route was answered 403.
C27_Witness ==
  /\ \E i \in DOMAIN users : users[i].id = "u7" /\ ~users[i].isActive
  /\ Registered("u7") = {"c1"}
  /\ Len(outbox["c1"]) = 2
  /\ outbox["c1"][1] = AuthSuccess
  /\ outbox["c1"][2].type = "new_message"
  /\ GuardedDone(1)
  /\ hs[1].query.token = SessionToken("u7", JWT_SECRET, TokenLifetime)
  /\ hs[1].status = 403

(***************************************************************************)
(* The close of a connection that was replaced                             *)
(***************************************************************************)

C28_CloseStep ==
  \A c \in DOMAIN readyState :
    readyState[c] # "CLOSED" /\ readyState'[c] = "CLOSED" =>
      LET held == {k \in MapKeys : wsConnections[k].ws = c} IN
      \* at most one entry goes, and it is one of the closed connection
      /\ IF held = {}
           THEN wsConnections' = wsConnections
           ELSE \E k \in held : wsConnections' = MapDeleteAt(k)
      \* the entries of the other connections stay
      /\ \A k \in MapKeys \ held :
           \E j \in DOMAIN wsConnections' : wsConnections'[j] = wsConnections[k]
      /\ \A u \in {SystemUser, "u1"} :
           Registered(u) # {} /\ c \notin Registered(u) =>
             \E j \in DOMAIN wsConnections' :
               /\ wsConnections'[j].userId = u
               /\ wsConnections'[j].ws \in Registered(u)

\* C28: the close handler removes an entry only if the entry holds the
\* connection that closed, and at most one entry for each close; so when a
\* connection registered for a user has been replaced by another that
\* authenticated as the same user, its close leaves the registration of the
\* other in place.
C28_CloseOfReplacedConnection == [][C28_CloseStep]_vars

\* c1 authenticated as the user, then c2 did, then c1 was closed: the user
\* is still registered, with c2.
C28_Witness ==
  /\ DOMAIN readyState = Connections
  /\ readyState["c1"] = "CLOSED" /\ readyState["c2"] = "OPEN"
  /\ outbox["c1"] = <<AuthSuccess>>
  /\ outbox["c2"] = <<AuthSuccess>>
  /\ wsConnections = <<[userId |-> SystemUser, ws |-> "c2"]>>

\* The state before that close: c1, replaced by c2, has begun to close and
\* holds no entry; no close handler has run yet, so c1's entry can only have
\* gone by c2's auth frame.
C28_ReplacedBeforeClose ==
  /\ DOMAIN readyState = Connections
  /\ readyState["c1"] = "CLOSING" /\ readyState["c2"] = "OPEN"
  /\ outbox["c1"] = <<AuthSuccess>>
  /\ outbox["c2"] = <<AuthSuccess>>
  /\ wsConnections = <<[userId |-> SystemUser, ws |-> "c2"]>>

(***************************************************************************)
(* The loop of POST /api/webhook                                           *)
(***************************************************************************)

\* No account of "system" has this phone number id.
NoAccount(meta) ==
  \A a \in DOMAIN whatsappAccounts :
    whatsappAccounts[a].userId = SystemUser => whatsappAccounts[a].phoneNumberId # meta

\* The n-th inbound message stored.
InboundRow(n) ==
  CHOOSE i \in InboundRows : Cardinality({j \in InboundRows : j < i}) = n - 1

\* The messages of its request that handler h has handed to
\* processIncomingMessage so far.
Handed(h) ==
  IF hs[h].kind # "webhook" \/ hs[h].pc = "idle" \/ NoAccount(hs[h].meta) THEN 0
  ELSE IF hs[h].pc = "wh_getWhatsappAccountsByUser" THEN hs[h].idx - 1
  ELSE hs[h].idx

ReplyPcs ==
  {"bot_getChatbot", "bot_updateMessage", "bot_createBotInteraction"} \cup
  {"out_getContact", "out_sendTextMessage", "out_createMessage",
   "out_getConversation", "out_updateConversation"}

C29_PayloadOrder ==
  \* the inbound messages are stored in the order they were taken up
  /\ Cardinality(InboundRows) <= Len(ingested)
  /\ Len(ingested) <= Cardinality(InboundRows) + 1
  /\ \A n \in 1..Cardinality(InboundRows) :
       /\ messages[InboundRow(n)].whatsappMessageId = ingested[n].message.id
       /\ messages[InboundRow(n)].content = Content(ingested[n].message)
  /\ \A h \in Handlers :
       \* and they are taken up in the order of the payload
       /\ Handed(h) <= Len(ingested)
       /\ \A j \in 1..Handed(h) :
            ingested[Len(ingested) - Handed(h) + j].message = hs[h].msgs[j]
       \* a reply is under way only for a message that is stored, the last one
       /\ hs[h].kind = "webhook" /\ hs[h].pc \in ReplyPcs =>
            /\ hs[h].inMsg \in InboundRows
            /\ \A i \in InboundRows : i <= hs[h].inMsg
            /\ messages[hs[h].inMsg].whatsappMessageId = Msg(hs[h]).id
       \* a request for a phone number id without account is answered 200
       /\ hs[h].kind = "webhook" /\ hs[h].pc = "idle" /\ NoAccount(hs[h].meta) =>
            hs[h].status = 200
  \* each reply stored follows the message it answers at once
  /\ \A i \in OutboundRows :
       /\ i - 1 \in InboundRows
       /\ messages[i].conversationId = messages[i - 1].conversationId

C29_LoopStep ==
  \A h \in Handlers :
    LET r == hs[h] IN
    \* a message is taken up by a handler at that position of its payload
    /\ ingested' # ingested =>
         \E g \in Handlers :
           /\ hs[g].pc = "wh_getWhatsappAccountsByUser"
           /\ ingested' = Append(ingested, [account |-> hs'[g].account,
                                            message |-> hs[g].msgs[hs[g].idx]])
    \* the position moves by one, from the end of a message's processing
    /\ r.pc # "idle" /\ hs'[h].pc # "idle" /\ hs'[h].idx # r.idx =>
         /\ hs'[h].idx = r.idx + 1
         /\ hs'[h].msgs = r.msgs
         /\ hs'[h].pc = "wh_getWhatsappAccountsByUser"
         /\ r.pc \in {"wh_getWhatsappAccountsByUser", "wh_getChatbotsByUser",
                      "bot_getChatbot", "bot_createBotInteraction"}
    \* the inbound message is stored and broadcast in one step, before the
    \* chatbots are looked up
    /\ hs'[h].pc = "wh_getChatbotsByUser" /\ r.pc # "wh_getChatbotsByUser" =>
         /\ r.pc = "pim_createMessage"
         /\ Len(messages') = Len(messages) + 1
         /\ hs'[h].inMsg = Len(messages')
         /\ outbox' = broadcastToUser(whatsappAccounts[r.account].userId,
                                      [type |-> "new_message", message |-> Len(messages')])
    \* an exception ends the request with 500, whatever is left of the
    \* payload, and undoes nothing
    /\ r.kind = "webhook" /\ SendFailed(h) =>
         /\ hs'[h].pc = "idle" /\ hs'[h].status = 500
         /\ <<contacts, conversations, messages, botInteractions, ingested, outbox>>'
              = <<contacts, conversations, messages, botInteractions, ingested, outbox>>
    \* a phone number id without account: nothing is written or broadcast
    /\ r.pc = "wh_getWhatsappAccountsByUser" /\ hs'[h] # r /\ NoAccount(r.meta) =>
         /\ <<contacts, conversations, messages, botInteractions, ingested,
              gateway, outbox>>'
              = <<contacts, conversations, messages, botInteractions, ingested,
                  gateway, outbox>>
         /\ hs'[h].pc = "idle" => hs'[h].status = 200

\* C29: the messages of one POST /api/webhook request are processed one at
\* a time in the order of the payload, each stored and broadcast before its
\* bot reply; an exception at one message ends the request with 500, the
\* later messages are not processed and what was stored before stays; a
\* message for a phone number id without account writes and broadcasts
\* nothing, and the request is still answered 200.
C29_WebhookLoop == [](C29_PayloadOrder) /\ [][C29_LoopStep]_vars

\* A payload of three messages whose second reply the provider refused: the
\* request was answered 500 with two messages stored and broadcast, the
\* first one answered by the bot, the third never taken up.
C29_Witness ==
  /\ AllIdle
  /\ hs[1].kind = "webhook" /\ hs[1].status = 500
  /\ Len(hs[1].msgs) = 3
  /\ Len(ingested) = 2
  /\ Cardinality(InboundRows) = 2
  /\ OutboundRows = {2}
  /\ Len(botInteractions) = 1
  /\ Len(gateway) = 2 /\ ~gateway[2].success
  /\ "c1" \in DOMAIN outbox
  /\ Len(outbox["c1"]) = 3
  /\ outbox["c1"][3] = [type |-> "new_message", message |-> 3]

(***************************************************************************)
(* The conversation of a message                                           *)
(***************************************************************************)

\* Message i is in a stored conversation of its own contact.
InOwnConversation(i) ==
  /\ messages[i].conversationId \in DOMAIN conversations
  /\ conversations[messages[i].conversationId].contactId = messages[i].contactId

\* C30 (as claimed): every stored message, inbound or outbound, references
\* a stored conversation whose contactId is the contactId of the message,
\* whatever conversationId and contactId the caller of POST /api/messages or
\* the send_message frame supplies.
C30_MessageInConversationOfItsContact ==
  \A i \in DOMAIN messages : InOwnConversation(i)

\* What holds: the messages stored by processIncomingMessage, and the
\* replies of the bot, are in a conversation of their contact.
C30_InboundAndBotInOwnConversation ==
  \A i \in InboundRows \cup BotTagged : InOwnConversation(i)

=============================================================================
